---- MODULE Spec2Model ----
(***************************************************************************)
(* Sample-size calculator (script of the page): the Z-score tables, the    *)
(* shared two-proportion estimator, the five MODES calculators, and the    *)
(* page's state machine (setupMode, the input listeners, calculate).       *)
(*                                                                         *)
(* JavaScript numbers are IEEE-754 binary64.  The results of the program   *)
(* depend on the rounding of every operation (4*0.2*0.8/(0.04*0.04) is     *)
(* 400.00000000000006 and its ceiling is 401), so numbers are modelled bit *)
(* for bit: a finite number is sign * mantissa * 2^exponent with a 53-bit  *)
(* mantissa, and + - * / sqrt round to nearest, ties to even.  Mantissas   *)
(* do not fit TLC's 32-bit integers and are kept as little-endian          *)
(* sequences of 15-bit limbs.  Not modelled: subnormals and overflow to    *)
(* Infinity by rounding (no value of the model comes near 2^-1022 or       *)
(* 2^1024), and the sign of zero.                                          *)
(***************************************************************************)
EXTENDS Integers, Sequences, FiniteSets, TLC

\* The state of the page: the mode and the values of its inputs, what the
\* page shows (whether the population group is displayed, the formula, the
\* headline, the parameter line, the table of methods), and the data of the
\* drawing.  sampleCanvas is the logical size of the canvas of the drawing and
\* gridLayout what drawPopulationGrid last laid out on it.  zArg and zRet are
\* the argument and the result of a Z-score function called on its own.
VARIABLES currentMode, inputsState, popGroupDisplay, formulaDisplay,
          nValueDisplay, dynamicParamsDisplay, interpretationTable,
          currentVisualData, sampleCanvas, gridLayout, zArg, zRet,
          frameRequests, windowSize

pageVars == <<currentMode, inputsState, popGroupDisplay, formulaDisplay,
              nValueDisplay, dynamicParamsDisplay, interpretationTable>>

\* frameRequests: the callbacks that requestAnimationFrame holds for the
\* next frame, loop itself and the arrow function of the ResizeObserver
\* windowSize: the globals width and height
frameVars == <<frameRequests, windowSize>>

vars == <<pageVars, currentVisualData, sampleCanvas, gridLayout, zArg, zRet, frameVars>>

\* Call(f, args): the value of the call f(...args) of an arithmetic operation
\* of JavaScript or of an entry of the program.  It is defined at the end of
\* the module; every operation below is computed by it.
RECURSIVE Call(_, _)

\* ------------------------------------------------------------------------
\* Natural numbers of any size: little-endian limbs, no high zero limb.
\* ------------------------------------------------------------------------
LimbBits == 5 * 3
Base == 2 ^ LimbBits

Limb(a, i) == IF 1 <= i /\ i <= Len(a) THEN a[i] ELSE 0

Max(m, n) == IF m > n THEN m ELSE n
Min(m, n) == IF m < n THEN m ELSE n

\* const v = ...; F(v): the value v is computed first, then F uses it (the
\* statements of a function run in program order; TLC would otherwise compute
\* each value where it is first needed, nested inside its user).
Let(v, F(_)) == CASE v = v -> F(v)
Let2(v, w, F(_, _)) == CASE v = v /\ w = w -> F(v, w)
Let3(v, w, x, F(_, _, _)) == CASE v = v /\ w = w /\ x = x -> F(v, w, x)
Let4(v, w, x, y, F(_, _, _, _)) == CASE v = v /\ w = w /\ x = x /\ y = y -> F(v, w, x, y)

\* The number of high limbs of a that are zero.
HighZeros(a) ==
    CHOOSE t \in 0..Len(a) :
        /\ t = Len(a) \/ a[Len(a) - t] # 0
        /\ \A k \in (Len(a) - t + 1)..Len(a) : a[k] = 0

\* a without its high zero limbs.
Trim(a) == SubSeq(a, 1, Len(a) - HighZeros(a))

\* An integer 0 <= n < 2^31 as limbs, and back.
NatLimbs(n) == Trim(<<n % Base, (n \div Base) % Base, n \div (Base * Base)>>)

LimbsNat(a) == Limb(a, 1) + Base * Limb(a, 2) + Base * Base * Limb(a, 3)

\* Whether a + b carries into limb i: a limb below overflows, and every limb
\* between passes the carry on.
Carry(a, b, i) ==
    \E j \in 1..(i - 1) :
        /\ Limb(a, j) + Limb(b, j) >= Base
        /\ \A k \in (j + 1)..(i - 1) : Limb(a, k) + Limb(b, k) = Base - 1

AddLimb(a, b, i) ==
    (Limb(a, i) + Limb(b, i) + (IF Carry(a, b, i) THEN 1 ELSE 0)) % Base

\* a + b; a and b may have high zero limbs.
BAdd(a, b) ==
    Trim([i \in 1..(Max(Len(a), Len(b)) + 1) |-> AddLimb(a, b, i)] \o <<>>)

\* Whether a - b borrows from limb i.
Borrow(a, b, i) ==
    \E j \in 1..(i - 1) :
        /\ Limb(a, j) < Limb(b, j)
        /\ \A k \in (j + 1)..(i - 1) : Limb(a, k) = Limb(b, k)

SubLimb(a, b, i) ==
    (Limb(a, i) - Limb(b, i) - (IF Borrow(a, b, i) THEN 1 ELSE 0)) % Base

\* a - b for a >= b.
BSub(a, b) == Trim([i \in 1..Len(a) |-> SubLimb(a, b, i)] \o <<>>)

\* -1, 0, 1 as a < b, a = b, a > b: by the highest limb in which they differ.
BCmp(a, b) ==
    IF Len(a) > Len(b) THEN 1
    ELSE IF Len(a) < Len(b) THEN -1
    ELSE IF a = b THEN 0
    ELSE IF \E i \in 1..Len(a) : a[i] > b[i] /\ \A k \in (i + 1)..Len(a) : a[k] = b[k]
         THEN 1
    ELSE -1

\* a * d for a limb d: the low halves of the limb products, plus the high
\* halves one limb up.
BMulSmall(a, d) ==
    BAdd([i \in 1..Len(a) |-> (a[i] * d) % Base] \o <<>>,
         <<0>> \o [i \in 1..Len(a) |-> (a[i] * d) \div Base])

ShiftLimbs(a, n) == IF Len(a) = 0 THEN a ELSE [i \in 1..n |-> 0] \o a

\* Column k of the long multiplication of a by b, over the limbs 1..i of a:
\* the low halves of the limb products of weight Base^(k-1), and the high
\* halves of those one column below.
RECURSIVE ColFrom(_, _, _, _)
ColFrom(a, b, k, i) ==
    IF i = 0 THEN 0
    ELSE ((a[i] * Limb(b, k + 1 - i)) % Base) + ((a[i] * Limb(b, k - i)) \div Base)
             + ColFrom(a, b, k, i - 1)

MulCols(a, b) == [k \in 1..(Len(a) + Len(b)) |-> ColFrom(a, b, k, Len(a))] \o <<>>

AddCols(cols) ==
    BAdd([k \in 1..Len(cols) |-> cols[k] % Base] \o <<>>,
         <<0>> \o [k \in 1..Len(cols) |-> cols[k] \div Base])

BMul(a, b) == AddCols(MulCols(a, b))

\* a shifted left by s bits, s below the bits of a limb: p is 2^s.
ShlBits(a, p) ==
    Trim([i \in 1..(Len(a) + 1) |->
              ((Limb(a, i) * p) % Base) + ((Limb(a, i - 1) * p) \div Base)] \o <<>>)

BShl(a, k) == ShiftLimbs(ShlBits(a, 2 ^ (k % LimbBits)), k \div LimbBits)

\* a shifted right by s bits, s below the bits of a limb: p is 2^s.
ShrBits(a, p) ==
    Trim([i \in 1..Len(a) |->
              (a[i] \div p) + (Limb(a, i + 1) % p) * (Base \div p)] \o <<>>)

BShr(a, k) ==
    IF k \div LimbBits >= Len(a) THEN <<>>
    ELSE ShrBits(SubSeq(a, (k \div LimbBits) + 1, Len(a)), 2 ^ (k % LimbBits))

\* The number of bits of n, for n of at most 2, 4, 8 and 16 bits.
Bits2(n) == IF n < 2 THEN n ELSE 2
Bits4(n) == IF n < 4 THEN Bits2(n) ELSE 2 + Bits2(n \div 4)
Bits8(n) == IF n < 16 THEN Bits4(n) ELSE 4 + Bits4(n \div 16)
IntBits(n) == IF n < 256 THEN Bits8(n) ELSE 8 + Bits8(n \div 256)

BBits(a) == IF Len(a) = 0 THEN 0 ELSE LimbBits * (Len(a) - 1) + IntBits(a[Len(a)])

BOdd(a) == Len(a) > 0 /\ a[1] % 2 = 1

\* The largest q <= qh with d * q <= r.
RECURSIVE FixDigit(_, _, _)
FixDigit(r, d, qh) ==
    IF BCmp(BMulSmall(d, qh), r) <= 0 THEN qh ELSE FixDigit(r, d, qh - 1)

\* The first guess of a quotient limb: the top two limbs of cur by the top
\* limb of d, at most Base - 1.
QuotEst(cur, d) ==
    Min(Base - 1, (Limb(cur, Len(d) + 1) * Base + Limb(cur, Len(d))) \div d[Len(d)])

\* Long division of limbs 1..i of a by d (its top limb has its top bit set),
\* r the remainder carried down and quot the quotient limbs found so far;
\* the result is <<quotient, whether the remainder is zero>>.  A limb whose
\* dividend cur is below d gives the quotient limb 0.
RECURSIVE DivFrom(_, _, _, _, _)
DivDigit(a, d, i, cur, q, quot) ==
    IF q = 0 THEN DivFrom(a, d, i - 1, cur, <<0>> \o quot)
    ELSE DivFrom(a, d, i - 1, BSub(cur, BMulSmall(d, q)), <<q>> \o quot)

DivLimb(a, d, i, cur, quot) ==
    IF BCmp(cur, d) < 0 THEN DivFrom(a, d, i - 1, cur, <<0>> \o quot)
    ELSE DivDigit(a, d, i, cur, FixDigit(cur, d, QuotEst(cur, d)), quot)

DivFrom(a, d, i, r, quot) ==
    IF i = 0 THEN <<Trim(quot), Len(r) = 0>>
    ELSE DivLimb(a, d, i, Trim(<<a[i]>> \o r), quot)

\* The top limbs of a that are below d give no quotient limb: they start
\* the remainder.
DivTop(a, d, i) == DivFrom(a, d, i, SubSeq(a, i + 1, Len(a)), <<>>)

DivNorm(a, d) == DivTop(a, d, IF Len(a) < Len(d) THEN 0 ELSE Len(a) - Len(d) + 1)

DivShifted(a, d, sh) == DivNorm(BShl(a, sh), BShl(d, sh))

\* <<a \div d, a % d = 0>> for d > 0.
BDiv(a, d) == DivShifted(a, d, LimbBits - IntBits(d[Len(d)]))

\* The integer square root of 1 <= t < 2^30 by Newton's iteration from x
\* above the root: the estimates decrease until they reach it.
RECURSIVE SmallRoot(_, _)
SmallRoot(t, x) ==
    IF (x + t \div x) \div 2 >= x THEN x ELSE SmallRoot(t, (x + t \div x) \div 2)

\* The bits of n > 0 below its top 29 or 30: an even number of them.
LowBits(n) ==
    IF BBits(n) <= 30 THEN 0
    ELSE IF (BBits(n) - 30) % 2 = 0 THEN BBits(n) - 30 ELSE BBits(n) - 29

\* A first estimate of the square root of n, above it: the root of the top
\* bits of n, rounded up.
FirstRoot(n, h) == BShl(NatLimbs(SmallRoot(LimbsNat(BShr(n, h)), Base) + 1), h \div 2)

\* One step of Newton's iteration from x above the root of n: the result
\* is nearer to the root, and not below its integer part.
NewtonStep(n, x) == Let(BDiv(n, x), LAMBDA qr : BShr(BAdd(x, qr[1]), 1))

\* The largest r <= x with r * r <= n.
RECURSIVE RootFrom(_, _)
RootFrom(n, x) == IF BCmp(BMul(x, x), n) <= 0 THEN x ELSE RootFrom(n, BSub(x, <<1>>))

\* The integer square root of n > 0.
BSqrt(n) ==
    Let(NewtonStep(n, FirstRoot(n, LowBits(n))), LAMBDA x1 :
    Let(NewtonStep(n, x1), LAMBDA x2 :
        RootFrom(n, x2)))

\* ------------------------------------------------------------------------
\* JavaScript numbers.  k is "num" (finite: s * m * 2^e, m = 0 or 53 bits),
\* "inf" (s * Infinity) or "nan".
\* ------------------------------------------------------------------------
MantBits == 50 + 3

NaN == [k |-> "nan", s |-> 1, m |-> <<>>, e |-> 0]
Inf(s) == [k |-> "inf", s |-> s, m |-> <<>>, e |-> 0]
Zero == [k |-> "num", s |-> 1, m |-> <<>>, e |-> 0]

IsNaN(x) == x.k = "nan"
IsInf(x) == x.k = "inf"
IsFinite(x) == x.k = "num"
IsZero(x) == x.k = "num" /\ Len(x.m) = 0

\* The number nearest to s * n * 2^e (n > 0; sticky: the exact value lies
\* strictly above n * 2^e and below (n + 1) * 2^e), ties to even.  sh is
\* the number of bits of n beyond the mantissa's.
RoundOff(s, n, e, sticky, sh) ==
    Let(BShr(n, sh), LAMBDA q :
    Let(BCmp(BSub(n, BShl(q, sh)), BShl(<<1>>, sh - 1)), LAMBDA c :
    Let(IF c > 0 \/ (c = 0 /\ (sticky \/ BOdd(q))) THEN BAdd(q, <<1>>) ELSE q,
        LAMBDA q2 :
        IF BBits(q2) > MantBits
        THEN [k |-> "num", s |-> s, m |-> BShr(q2, 1), e |-> e + sh + 1]
        ELSE [k |-> "num", s |-> s, m |-> q2, e |-> e + sh])))

RoundNearest(s, n, e, sticky) ==
    Let(BBits(n), LAMBDA l :
        IF l <= MantBits
        THEN [k |-> "num", s |-> s, m |-> BShl(n, MantBits - l), e |-> e - (MantBits - l)]
        ELSE RoundOff(s, n, e, sticky, l - MantBits))

Round(s, n, e, sticky) == RoundNearest(s, n, e, sticky)

\* An integer of TLC as a number.
IntNumber(n) ==
    IF n = 0 THEN Zero
    ELSE IF n > 0 THEN Round(1, NatLimbs(n), 0, FALSE)
    ELSE Round(-1, NatLimbs(-n), 0, FALSE)

FromInt(n) == Call("FromInt", <<n>>)

NumNeg(x) == IF IsNaN(x) \/ IsZero(x) THEN x ELSE [x EXCEPT !.s = -x.s]

NumAbs(x) == IF IsNaN(x) THEN x ELSE [x EXCEPT !.s = 1]

\* Neither NaN, nor infinite, nor zero.
IsOrdinary(x) == x.k = "num" /\ Len(x.m) > 0

MulSpecial(x, y) ==
    IF IsNaN(x) \/ IsNaN(y) THEN NaN
    ELSE IF IsInf(x) \/ IsInf(y)
         THEN (IF IsZero(x) \/ IsZero(y) THEN NaN ELSE Inf(x.s * y.s))
    ELSE Zero

Product(x, y) ==
    IF IsOrdinary(x) /\ IsOrdinary(y)
    THEN Round(x.s * y.s, BMul(x.m, y.m), x.e + y.e, FALSE)
    ELSE MulSpecial(x, y)

\* x * y
NumMul(x, y) == Call("*", <<x, y>>)

DivSpecial(x, y) ==
    IF IsNaN(x) \/ IsNaN(y) THEN NaN
    ELSE IF IsInf(x) THEN (IF IsInf(y) THEN NaN ELSE Inf(x.s * y.s))
    ELSE IF IsInf(y) THEN Zero
    ELSE IF IsZero(y) THEN (IF IsZero(x) THEN NaN ELSE Inf(x.s))
    ELSE Zero

Quotient(x, y) ==
    IF IsOrdinary(x) /\ IsOrdinary(y)
    THEN Let(BDiv(BShl(x.m, MantBits + 2), y.m), LAMBDA qr :
             Round(x.s * y.s, qr[1], x.e - y.e - (MantBits + 2), ~qr[2]))
    ELSE DivSpecial(x, y)

\* x / y
NumDiv(x, y) == Call("/", <<x, y>>)

AddSpecial(x, y) ==
    IF IsNaN(x) \/ IsNaN(y) THEN NaN
    ELSE IF IsInf(x) THEN (IF IsInf(y) /\ y.s # x.s THEN NaN ELSE x)
    ELSE IF IsInf(y) THEN y
    ELSE IF IsZero(x) THEN y
    ELSE x

\* x + y for ordinary x and y, e0 the smaller of their exponents.
AddAligned(x, y, e0) ==
    Let2(BShl(x.m, x.e - e0), BShl(y.m, y.e - e0), LAMBDA nx, ny :
    Let(BCmp(nx, ny), LAMBDA c :
        IF x.s = y.s THEN Round(x.s, BAdd(nx, ny), e0, FALSE)
        ELSE IF c = 0 THEN Zero
        ELSE IF c > 0 THEN Round(x.s, BSub(nx, ny), e0, FALSE)
        ELSE Round(y.s, BSub(ny, nx), e0, FALSE)))

Sum(x, y) ==
    IF IsOrdinary(x) /\ IsOrdinary(y)
    THEN AddAligned(x, y, IF x.e < y.e THEN x.e ELSE y.e)
    ELSE AddSpecial(x, y)

\* x + y
NumAdd(x, y) == Call("+", <<x, y>>)

NumSub(x, y) == NumAdd(x, NumNeg(y))

SqrtSpecial(x) ==
    IF IsNaN(x) THEN NaN
    ELSE IF IsZero(x) THEN Zero
    ELSE IF x.s < 0 THEN NaN
    ELSE x

SquareRoot(x) ==
    IF IsOrdinary(x) /\ x.s > 0
    THEN Let(IF (x.e - (MantBits + 4)) % 2 = 0 THEN MantBits + 4 ELSE MantBits + 5,
             LAMBDA t :
         Let(BShl(x.m, t), LAMBDA n :
         Let(BSqrt(n), LAMBDA r :
             Round(1, r, (x.e - t) \div 2, BCmp(BMul(r, r), n) # 0))))
    ELSE SqrtSpecial(x)

\* Math.sqrt
NumSqrt(x) == Call("Math.sqrt", <<x>>)

Ceiling(x) ==
    IF ~IsOrdinary(x) \/ x.e >= 0 THEN x
    ELSE IF -x.e >= MantBits THEN (IF x.s > 0 THEN FromInt(1) ELSE Zero)
    ELSE Let(BShr(x.m, -x.e), LAMBDA q :
         Let(IF x.s > 0 /\ BCmp(BShl(q, -x.e), x.m) # 0 THEN BAdd(q, <<1>>) ELSE q,
             LAMBDA c :
             IF Len(c) = 0 THEN Zero ELSE Round(x.s, c, 0, FALSE)))

\* Math.ceil
NumCeil(x) == Call("Math.ceil", <<x>>)

\* Math.floor
NumFloor(x) == NumNeg(NumCeil(NumNeg(x)))

\* -1, 0, 1 as x < y, x = y, x > y, for numbers that are not NaN.
NumCmp(x, y) ==
    IF IsInf(x) /\ IsInf(y) /\ x.s = y.s THEN 0
    ELSE Let(NumSub(x, y), LAMBDA d : IF IsZero(d) THEN 0 ELSE d.s)

NumLt(x, y) == ~IsNaN(x) /\ ~IsNaN(y) /\ NumCmp(x, y) < 0
NumGt(x, y) == NumLt(y, x)
NumLe(x, y) == ~IsNaN(x) /\ ~IsNaN(y) /\ NumCmp(x, y) <= 0
NumEq(x, y) == ~IsNaN(x) /\ ~IsNaN(y) /\ NumCmp(x, y) = 0

\* Whether x is an integer that TLC's integers hold, and that integer.
IsInt(x) ==
    IsZero(x) \/ (IsFinite(x) /\ x.e <= 0 /\ -x.e < MantBits /\ MantBits + x.e <= 30
                  /\ BCmp(BShl(BShr(x.m, -x.e), -x.e), x.m) = 0)

ToInt(x) == IF IsZero(x) THEN 0 ELSE x.s * LimbsNat(BShr(x.m, -x.e))

\* The decimal literal q / scale (scale a power of ten): the nearest number.
Dec(q, scale) == NumDiv(FromInt(q), FromInt(scale))

\* JavaScript's truthiness of a number, and a || b on numbers.
Truthy(x) == ~IsNaN(x) /\ ~IsZero(x)
OrElse(x, y) == IF Truthy(x) THEN x ELSE y

\* The text of a number, in a literal of the script or in an input of the
\* page: Text(q, scale) is the decimal q / scale (scale a power of ten),
\* Text(1, 0) and Text(-1, 0) are Infinity and -Infinity, Text(0, 0) is the
\* empty text.
Text(q, scale) == [k |-> "text", q |-> q, scale |-> scale]

IsText(x) == x.k = "text"

\* The number that a text denotes: the nearest to the decimal; NaN for the
\* empty text.
NumberOf(text) ==
    IF text.scale # 0 THEN Dec(text.q, text.scale)
    ELSE IF text.q = 0 THEN NaN
    ELSE Inf(text.q)

\* parseFloat.  A number is first written as a string, and the shortest
\* round-trip string of a number parses back to the same number.
ParseFloat(x) == IF IsText(x) THEN NumberOf(x) ELSE x

\* parseInt of a number (written without an exponent, as every number of the
\* model with magnitude in [1e-6, 1e21) is): the digits before the point.
ParseInt(x) ==
    IF ~IsFinite(x) THEN NaN
    ELSE IF x.s > 0 THEN NumFloor(x) ELSE NumCeil(x)

\* Math.pow(x, 2): the square, rounded once.
Pow2(x) == NumMul(x, x)

\* ------------------------------------------------------------------------
\* Values of JavaScript other than numbers and booleans.
\* ------------------------------------------------------------------------
Undefined == [k |-> "undefined"]
Null == [k |-> "null"]
Str(v) == [k |-> "str", v |-> v]

IsString(x) == x.k = "str"
IsObject(x) == x.k = "obj"

\* ------------------------------------------------------------------------
\* Z-score tables
\* ------------------------------------------------------------------------
\* Z_MAP, in thousandths
Z_MAP ==
    [p \in 80..99 |->
        <<842, 878, 915, 954, 994, 1036, 1080, 1126, 1175, 1227,
          1282, 1341, 1405, 1476, 1555, 1645, 1751, 1881, 2054, 2326>>[p - 79]]

\* Z_ALPHA_MAP, in thousandths
Z_ALPHA_MAP == (90 :> 1645) @@ (95 :> 1960) @@ (98 :> 2326) @@ (99 :> 2576)

\* A property read map[p]: the key is the number written as a string, so only
\* an integer-valued p can name a key.
HasKey(map, p) == IsInt(p) /\ ToInt(p) \in DOMAIN map

\* getZBeta without the "|| 0.842" of its return: a missing key reads undefined
getZBetaStrict(p) ==
    IF HasKey(Z_MAP, p) THEN Dec(Z_MAP[ToInt(p)], 1000) ELSE NaN

getZBeta(p) ==
    IF HasKey(Z_MAP, p) THEN Dec(Z_MAP[ToInt(p)], 1000) ELSE Dec(842, 1000)

\* getZAlpha with bands that are closed above (<=) and no exact match
getZAlphaClosedBands(c) ==
    IF NumLe(c, FromInt(95)) THEN Dec(1645, 1000)
    ELSE IF NumLe(c, FromInt(98)) THEN Dec(1960, 1000)
    ELSE IF NumLe(c, FromInt(99)) THEN Dec(2326, 1000)
    ELSE Dec(2576, 1000)

getZAlpha(c) ==
    IF HasKey(Z_ALPHA_MAP, c) THEN Dec(Z_ALPHA_MAP[ToInt(c)], 1000)
    ELSE IF NumLt(c, FromInt(95)) THEN Dec(1645, 1000)
    ELSE IF NumLt(c, FromInt(98)) THEN Dec(1960, 1000)
    ELSE IF NumLt(c, FromInt(99)) THEN Dec(2326, 1000)
    ELSE Dec(2576, 1000)

\* ------------------------------------------------------------------------
\* calculateAdvanced
\* ------------------------------------------------------------------------
\* The dropout step without its ceiling
ApplyDropoutUnrounded(dropout, n1) ==
    IF dropout THEN NumDiv(n1, Dec(9, 10)) ELSE n1

\* if (dropout) n1 = Math.ceil(n1 / 0.9)
ApplyDropout(dropout, n1) ==
    IF dropout THEN NumCeil(NumDiv(n1, Dec(9, 10))) ELSE n1

\* A row whose n2 is n1 * r without the ceiling
EstimateUnrounded(n1, r) ==
    [n1 |-> n1, n2 |-> NumMul(n1, r), total |-> NumAdd(n1, NumMul(n1, r))]

\* One row of the returned record: { n1, n2: ceil(n1 * r), total: n1 + ceil(n1 * r) }
Estimate(n1, r) ==
    [n1 |-> n1, n2 |-> NumCeil(NumMul(n1, r)), total |-> NumAdd(n1, NumCeil(NumMul(n1, r)))]

\* n1_kelsey without the allocation ratio in its denominator
KelseyN1Unweighted(za, zb, p_avg_q_avg, r, p1, p2) ==
    NumCeil(NumDiv(NumMul(NumMul(Pow2(NumAdd(za, zb)), p_avg_q_avg), NumAdd(r, FromInt(1))),
                   Pow2(NumSub(p1, p2))))

\* n1_kelsey before the dropout step
KelseyN1(za, zb, p_avg_q_avg, r, p1, p2) ==
    NumCeil(NumDiv(NumMul(NumMul(Pow2(NumAdd(za, zb)), p_avg_q_avg), NumAdd(r, FromInt(1))),
                   NumMul(r, Pow2(NumSub(p1, p2)))))

\* fleiss_num
FleissNum(za, zb, p_avg_q_avg, r, p1_q1, p2_q2) ==
    Pow2(NumAdd(NumMul(za, NumSqrt(NumMul(NumAdd(r, FromInt(1)), p_avg_q_avg))),
                NumMul(zb, NumSqrt(NumAdd(NumMul(r, p1_q1), p2_q2)))))

\* n1_cc with the factor of the correction not squared
FleissCCUnsquared(n1_uncorrected, r, p1, p2) ==
    Let(NumDiv(NumMul(FromInt(2), NumAdd(r, FromInt(1))),
               NumMul(NumMul(n1_uncorrected, r), NumAbs(NumSub(p1, p2)))),
        LAMBDA cc_term :
        NumMul(NumDiv(n1_uncorrected, FromInt(4)),
               NumAdd(FromInt(1), NumSqrt(NumAdd(FromInt(1), cc_term)))))

\* n1_cc
FleissCC(n1_uncorrected, r, p1, p2) ==
    Let(NumDiv(NumMul(FromInt(2), NumAdd(r, FromInt(1))),
               NumMul(NumMul(n1_uncorrected, r), NumAbs(NumSub(p1, p2)))),
        LAMBDA cc_term :
        NumMul(NumDiv(n1_uncorrected, FromInt(4)),
               Pow2(NumAdd(FromInt(1), NumSqrt(NumAdd(FromInt(1), cc_term))))))

\* const za = getZAlpha((1 - alpha) * 100)
ZAlphaOfAlpha(alpha) == getZAlpha(NumMul(NumSub(FromInt(1), alpha), FromInt(100)))

\* The lookup of zb on the fraction 1 - beta, not multiplied by 100
ZBetaOfBetaFraction(beta) == getZBeta(NumSub(FromInt(1), beta))

\* const zb = getZBeta((1 - beta) * 100)
ZBetaOfBeta(beta) == getZBeta(NumMul(NumSub(FromInt(1), beta), FromInt(100)))

calculateAdvanced(p1, p2, ratio, alpha, beta, dropout) ==
    Let3(OrElse(ParseFloat(ratio), FromInt(1)),
         ZAlphaOfAlpha(alpha),
         ZBetaOfBeta(beta),
         LAMBDA r, za, zb :
    Let3(NumDiv(NumAdd(p1, NumMul(r, p2)), NumAdd(FromInt(1), r)),
         NumMul(p1, NumSub(FromInt(1), p1)),
         NumMul(p2, NumSub(FromInt(1), p2)),
         LAMBDA p_avg, p1_q1, p2_q2 :
    Let(NumMul(p_avg, NumSub(FromInt(1), p_avg)), LAMBDA p_avg_q_avg :
    Let3(KelseyN1(za, zb, p_avg_q_avg, r, p1, p2),
         FleissNum(za, zb, p_avg_q_avg, r, p1_q1, p2_q2),
         NumMul(r, Pow2(NumSub(p1, p2))),
         LAMBDA n1_kelsey, fleiss_num, fleiss_den :
    Let(NumDiv(fleiss_num, fleiss_den), LAMBDA n1_uncorrected :
    Let2(NumCeil(n1_uncorrected),
         NumCeil(FleissCC(n1_uncorrected, r, p1, p2)),
         LAMBDA n1_fleiss, n1_fleiss_cc :
         [k |-> "obj",
          kelsey |-> Estimate(ApplyDropout(dropout, n1_kelsey), r),
          fleiss |-> Estimate(ApplyDropout(dropout, n1_fleiss), r),
          fleiss_cc |-> Estimate(ApplyDropout(dropout, n1_fleiss_cc), r)]))))))

\* ------------------------------------------------------------------------
\* MODES: the input schema and the calc function of each study design
\* ------------------------------------------------------------------------
\* The display string of a result: label stands for the text that carries
\* the digits of the parameters.
Display(label, dropout) ==
    Str(IF dropout THEN label \o " (Incl. 10% Dropout)" ELSE label)

\* inputs of each mode, in order: id, type and val
MODES_inputs ==
    [m \in {"prevalence", "case-control", "cohort", "rct", "two-means"} |->
        CASE m = "prevalence" ->
               <<[id |-> "prevalence", type |-> "range", val |-> Text(50, 1)],
                 [id |-> "precision", type |-> "range", val |-> Text(5, 1)],
                 [id |-> "fpc", type |-> "checkbox", val |-> FALSE],
                 [id |-> "dropout", type |-> "checkbox", val |-> FALSE],
                 [id |-> "popSize", type |-> "number", val |-> Text(1000, 1)]>>
          [] m = "case-control" ->
               <<[id |-> "p_controls", type |-> "range", val |-> Text(30, 1)],
                 [id |-> "or", type |-> "number", val |-> Text(2, 1)],
                 [id |-> "power", type |-> "range", val |-> Text(80, 1)],
                 [id |-> "confidence", type |-> "range", val |-> Text(95, 1)],
                 [id |-> "ratio", type |-> "number", val |-> Text(1, 1)],
                 [id |-> "dropout", type |-> "checkbox", val |-> FALSE]>>
          [] m = "cohort" ->
               <<[id |-> "p_unexposed", type |-> "range", val |-> Text(5, 1)],
                 [id |-> "p_exposed", type |-> "range", val |-> Text(95, 10)],
                 [id |-> "power", type |-> "range", val |-> Text(80, 1)],
                 [id |-> "confidence", type |-> "range", val |-> Text(95, 1)],
                 [id |-> "ratio", type |-> "number", val |-> Text(1, 1)],
                 [id |-> "dropout", type |-> "checkbox", val |-> FALSE]>>
          [] m = "rct" ->
               <<[id |-> "p1", type |-> "range", val |-> Text(50, 1)],
                 [id |-> "p2", type |-> "range", val |-> Text(40, 1)],
                 [id |-> "power", type |-> "range", val |-> Text(80, 1)],
                 [id |-> "confidence", type |-> "range", val |-> Text(95, 1)],
                 [id |-> "ratio", type |-> "number", val |-> Text(1, 1)],
                 [id |-> "dropout", type |-> "checkbox", val |-> FALSE]>>
          [] m = "two-means" ->
               <<[id |-> "mean1", type |-> "number", val |-> Text(13286, 100)],
                 [id |-> "sd1", type |-> "number", val |-> Text(1534, 100)],
                 [id |-> "mean2", type |-> "number", val |-> Text(12744, 100)],
                 [id |-> "sd2", type |-> "number", val |-> Text(1823, 100)],
                 [id |-> "ratio", type |-> "number", val |-> Text(1, 1)],
                 [id |-> "power", type |-> "range", val |-> Text(80, 1)],
                 [id |-> "confidence", type |-> "range", val |-> Text(95, 1)],
                 [id |-> "dropout", type |-> "checkbox", val |-> FALSE]>>]

\* The correction step without the test of state.popSize > 0
FpcAnyPopulation(state, n) ==
    IF state["fpc"]
    THEN Let(ParseInt(state["popSize"]), LAMBDA pop :
             NumDiv(n, NumAdd(FromInt(1), NumDiv(n, pop))))
    ELSE n

\* The correction with the ratio upside down: n / (1 + population / n)
FpcInvertedRatio(state, n) ==
    IF state["fpc"] /\ NumGt(state["popSize"], Zero)
    THEN Let(ParseInt(state["popSize"]), LAMBDA pop :
             NumDiv(n, NumAdd(FromInt(1), NumDiv(pop, n))))
    ELSE n

\* if (state.fpc && state.popSize > 0) n = n / (1 + (n / parseInt(state.popSize)))
Fpc(state, n) ==
    IF state["fpc"] /\ NumGt(state["popSize"], Zero)
    THEN Let(ParseInt(state["popSize"]), LAMBDA pop :
             NumDiv(n, NumAdd(FromInt(1), NumDiv(n, pop))))
    ELSE n

\* The dropout step on a size that is rounded up first
DropoutRounded(state, n) ==
    IF state["dropout"] THEN NumDiv(NumCeil(n), Dec(9, 10)) ELSE n

\* if (state.dropout) n = n / 0.9
Dropout(state, n) ==
    IF state["dropout"] THEN NumDiv(n, Dec(9, 10)) ELSE n

\* MODES['prevalence'].calc
calcPrevalence(state) ==
    Let2(NumDiv(state["prevalence"], FromInt(100)),
         NumDiv(state["precision"], FromInt(100)),
         LAMBDA P, D :
    Let(NumDiv(NumMul(NumMul(FromInt(4), P), NumSub(FromInt(1), P)), NumMul(D, D)),
        LAMBDA n0 :
    Let(Fpc(state, n0), LAMBDA n1 :
    Let(Dropout(state, n1), LAMBDA n :
        [n |-> NumCeil(n),
         display |-> Display("P=# Q=# D=#", state["dropout"]),
         table |-> Undefined,
         visualData |-> Null]))))

\* The visualData of the comparative designs: the Fleiss row, n2 first.
FleissVisual(results, label1, label2) ==
    [k |-> "obj", n1 |-> results.fleiss.n2, n2 |-> results.fleiss.n1,
     label1 |-> label1, label2 |-> label2]

\* A result without an estimate that carries counts of 0 for the grid
NoTableZeroCounts(n, display) ==
    [n |-> n, display |-> Str(display), table |-> Null,
     visualData |-> [k |-> "obj", n1 |-> Zero, n2 |-> Zero,
                     label1 |-> "Group 1", label2 |-> "Group 2"]]

\* A result without an estimate: { n, display, table: null }
NoTable(n, display) ==
    [n |-> n, display |-> Str(display), table |-> Null, visualData |-> Undefined]

\* (100 - percent) / 100
Complement(percent) == NumDiv(NumSub(FromInt(100), percent), FromInt(100))

\* Math.abs(OR - 1) < 0.001
NoEffect(OR) == NumLt(NumAbs(NumSub(OR, FromInt(1))), Dec(1, 1000))

\* The safety cap for P1 that never applies
ImpossibleP1Never(P1) == FALSE

\* P1 > 0.999
ImpossibleP1(P1) == NumGt(P1, Dec(999, 1000))

\* The estimator called with the proportions the other way round
CaseControlResultsSwapped(P1, P0, r, alpha, beta, dropout) ==
    calculateAdvanced(P0, P1, r, alpha, beta, dropout)

\* const results = calculateAdvanced(P1, P0, r, alpha, beta, state.dropout)
CaseControlResults(P1, P0, r, alpha, beta, dropout) ==
    calculateAdvanced(P1, P0, r, alpha, beta, dropout)

\* MODES['case-control'].calc
calcCaseControl(state) ==
    Let2(NumDiv(ParseFloat(state["p_controls"]), FromInt(100)),
         ParseFloat(state["or"]),
         LAMBDA P0, OR :
    Let3(OrElse(ParseFloat(state["ratio"]), FromInt(1)),
         ParseInt(state["power"]),
         OrElse(ParseInt(state["confidence"]), FromInt(95)),
         LAMBDA r, power, conf :
    Let2(Complement(conf), Complement(power), LAMBDA alpha, beta :
        IF NoEffect(OR)
        THEN NoTable(Zero, "OR=1 implies no effect. N is infinite.")
        ELSE
    Let(NumDiv(NumMul(OR, P0), NumAdd(FromInt(1), NumMul(P0, NumSub(OR, FromInt(1))))),
        LAMBDA P1 :
        IF ImpossibleP1(P1)
        THEN NoTable(Str("Error"), "Impossible inputs: P1 > 100%. Lower Baseline or OR.")
        ELSE
    Let(CaseControlResults(P1, P0, r, alpha, beta, state["dropout"]), LAMBDA results :
        [n |-> results.fleiss.total,
         display |-> Display("P_cases=#% P_controls=#% OR=#", state["dropout"]),
         table |-> results,
         visualData |-> FleissVisual(results, "Controls", "Cases")])))))

\* The test for equal proportions that never finds them
EqualProportionsNever(P1, P2) == FALSE

\* Math.abs(P1 - P2) < 0.0001, in the calc of cohort and in the calc of rct
EqualProportions(P1, P2) == NumLt(NumAbs(NumSub(P1, P2)), Dec(1, 10000))

\* MODES['cohort'].calc
calcCohort(state) ==
    Let2(NumDiv(ParseFloat(state["p_unexposed"]), FromInt(100)),
         NumDiv(ParseFloat(state["p_exposed"]), FromInt(100)),
         LAMBDA P2, P1 :
    Let3(OrElse(ParseFloat(state["ratio"]), FromInt(1)),
         ParseInt(state["power"]),
         OrElse(ParseInt(state["confidence"]), FromInt(95)),
         LAMBDA r, power, conf :
    Let2(Complement(conf), Complement(power), LAMBDA alpha, beta :
        IF EqualProportions(P1, P2)
        THEN NoTable(Str("Error"), "P1 and P2 cannot be equal.")
        ELSE
    Let(calculateAdvanced(P1, P2, r, alpha, beta, state["dropout"]), LAMBDA results :
        [n |-> results.fleiss.total,
         display |-> Display("P1=#% P2=#% RR=# RD=#%", state["dropout"]),
         table |-> results,
         visualData |-> FleissVisual(results, "Unexposed", "Exposed")]))))

\* The estimator called with the proportions in the order of the groups
RctResultsUnswapped(P1, P2, r, alpha, beta, dropout) ==
    calculateAdvanced(P1, P2, r, alpha, beta, dropout)

\* const results = calculateAdvanced(P2, P1, r, alpha, beta, state.dropout)
RctResults(P1, P2, r, alpha, beta, dropout) ==
    calculateAdvanced(P2, P1, r, alpha, beta, dropout)

\* MODES['rct'].calc
calcRct(state) ==
    Let2(NumDiv(ParseFloat(state["p1"]), FromInt(100)),
         NumDiv(ParseFloat(state["p2"]), FromInt(100)),
         LAMBDA P1, P2 :
    Let3(OrElse(ParseFloat(state["ratio"]), FromInt(1)),
         ParseInt(state["power"]),
         OrElse(ParseInt(state["confidence"]), FromInt(95)),
         LAMBDA r, power, conf :
    Let2(Complement(conf), Complement(power), LAMBDA alpha, beta :
        IF EqualProportions(P1, P2)
        THEN NoTable(Str("Error"), "P1 and P2 cannot be equal.")
        ELSE
    Let(RctResults(P1, P2, r, alpha, beta, state["dropout"]), LAMBDA results :
        [n |-> results.fleiss.total,
         display |-> Display("P1=#% P2=#% Power=#% Conf=#%", state["dropout"]),
         table |-> results,
         visualData |-> FleissVisual(results, "Group 1", "Group 2")]))))

\* n1 with the variance of group 2 not divided by the ratio
TwoMeansN1Unweighted(za, zb, s1, s2, r, m1, m2) ==
    NumCeil(NumDiv(NumMul(Pow2(NumAdd(za, zb)), NumAdd(NumMul(s1, s1), NumMul(s2, s2))),
                   Pow2(NumSub(m1, m2))))

\* num, den and n1 = Math.ceil(num / den)
TwoMeansN1(za, zb, s1, s2, r, m1, m2) ==
    Let2(NumMul(Pow2(NumAdd(za, zb)), NumAdd(NumMul(s1, s1), NumDiv(NumMul(s2, s2), r))),
         Pow2(NumSub(m1, m2)),
         LAMBDA num, den : NumCeil(NumDiv(num, den)))

\* m1 === m2
EqualMeans(m1, m2) == NumEq(m1, m2)

\* MODES['two-means'].calc
calcTwoMeans(state) ==
    Let4(ParseFloat(state["mean1"]), ParseFloat(state["sd1"]),
         ParseFloat(state["mean2"]), ParseFloat(state["sd2"]),
         LAMBDA m1, s1, m2, s2 :
    Let3(OrElse(ParseFloat(state["ratio"]), FromInt(1)),
         ParseInt(state["power"]),
         OrElse(ParseInt(state["confidence"]), FromInt(95)),
         LAMBDA r, power, conf :
    Let2(getZAlpha(conf), getZBeta(power), LAMBDA za, zb :
        IF EqualMeans(m1, m2)
        THEN [n |-> Str("Error"), display |-> Str("Means cannot be equal."),
              table |-> Undefined, visualData |-> Null]
        ELSE
    Let(ApplyDropout(state["dropout"], TwoMeansN1(za, zb, s1, s2, r, m1, m2)), LAMBDA n1 :
    Let(NumCeil(NumMul(n1, r)), LAMBDA n2 :
        [n |-> NumAdd(n1, n2),
         display |-> Display("M1=# SD1=# M2=# SD2=# Diff=#", state["dropout"]),
         table |-> Undefined,
         visualData |-> [k |-> "obj", n1 |-> n1, n2 |-> n2,
                         label1 |-> "Group 1", label2 |-> "Group 2"]])))))

\* MODES[mode].calc(state)
MODES_calc(mode, state) ==
    CASE mode = "prevalence" -> calcPrevalence(state)
      [] mode = "case-control" -> calcCaseControl(state)
      [] mode = "cohort" -> calcCohort(state)
      [] mode = "rct" -> calcRct(state)
      [] mode = "two-means" -> calcTwoMeans(state)

\* ------------------------------------------------------------------------
\* The page: its state, calculate, setupMode and the listeners of the inputs
\* ------------------------------------------------------------------------
Modes == DOMAIN MODES_inputs

\* config.inputs.find(input => input.id === id); no mode lists an id twice
InputOf(mode, id) ==
    MODES_inputs[mode][CHOOSE i \in DOMAIN MODES_inputs[mode] :
                           MODES_inputs[mode][i].id = id]

InputIds(mode) == {MODES_inputs[mode][i].id : i \in DOMAIN MODES_inputs[mode]}

\* inputsState after the forEach of setupMode: every input at its val
DefaultStateOf(mode) ==
    [id \in InputIds(mode) |->
        IF InputOf(mode, id).type = "checkbox" THEN InputOf(mode, id).val
        ELSE NumberOf(InputOf(mode, id).val)]

\* mainValue.toLocaleString(): the text of a number
ToLocaleString(x) == [k |-> "text", of |-> x]

\* The rows of the table that calculate renders
TableHTML(result) ==
    [k |-> "table",
     head |-> <<"Method", result.visualData.label2, result.visualData.label1, "Total">>,
     kelsey |-> <<result.table.kelsey.n1, result.table.kelsey.n2, result.table.kelsey.total>>,
     fleiss |-> <<result.table.fleiss.n1, result.table.fleiss.n2, result.table.fleiss.total>>,
     fleiss_cc |-> <<result.table.fleiss_cc.n1, result.table.fleiss_cc.n2,
                     result.table.fleiss_cc.total>>]

\* calculate() showing result.n whatever the table holds
ShownN(result) ==
    [nValueDisplay |->
         IF IsString(result.n)
         THEN [size |-> "3rem", value |-> result.n, sub |-> ""]
         ELSE [size |-> "5rem", value |-> ToLocaleString(result.n), sub |-> ""],
     dynamicParamsDisplay |-> result.display,
     interpretationTable |->
         IF IsObject(result.table) THEN TableHTML(result) ELSE Null,
     currentVisualData |-> result.visualData]

\* What calculate() shows of the result of calc
Shown(result) ==
    Let(IF IsObject(result.table) THEN result.table.kelsey.total ELSE result.n,
        LAMBDA mainValue :
        [nValueDisplay |->
             IF IsString(mainValue)
             THEN [size |-> "3rem", value |-> mainValue, sub |-> ""]
             ELSE [size |-> "5rem", value |-> ToLocaleString(mainValue),
                   sub |-> IF IsObject(result.table) THEN "Kelsey Estimate" ELSE ""],
         dynamicParamsDisplay |-> result.display,
         interpretationTable |->
             IF IsObject(result.table) THEN TableHTML(result) ELSE Null,
         currentVisualData |-> result.visualData])

\* The assignments of calculate()
Show(shown) ==
    /\ nValueDisplay' = shown.nValueDisplay
    /\ dynamicParamsDisplay' = shown.dynamicParamsDisplay
    /\ interpretationTable' = shown.interpretationTable
    /\ currentVisualData' = shown.currentVisualData

\* The texts a user gives to the input id of a mode: a slider gives its
\* min plus whole steps, a number field anything typed.
InputValues(mode, id) ==
    CASE mode = "prevalence" /\ id = "prevalence" -> {Text(20, 1), Text(50, 1)}
      [] mode = "prevalence" /\ id = "precision" -> {Text(4, 1), Text(5, 1)}
      [] mode = "prevalence" /\ id = "popSize" ->
             {Text(1000, 1), Text(50, 1), Text(0, 1), Text(-5, 1), Text(0, 0)}
      [] mode = "case-control" /\ id = "or" ->
             {Text(2, 1), Text(10005, 10000), Text(5000, 1), Text(0, 1)}
      [] mode = "case-control" /\ id = "ratio" -> {Text(1, 1), Text(5, 10), Text(0, 1)}
      [] mode = "cohort" /\ id = "p_exposed" -> {Text(5, 1), Text(201, 10)}
      [] mode = "cohort" /\ id = "power" -> {Text(80, 1), Text(90, 1)}
      [] mode = "cohort" /\ id = "ratio" -> {Text(1, 1), Text(5, 10)}
      [] mode = "rct" /\ id = "p1" -> {Text(40, 1), Text(50, 1)}
      [] mode = "rct" /\ id = "p2" -> {Text(40, 1), Text(50, 1)}
      [] mode = "rct" /\ id = "confidence" -> {Text(95, 1), Text(97, 1)}
      [] mode = "rct" /\ id = "ratio" -> {Text(1, 1), Text(5, 10)}
      [] mode = "two-means" /\ id = "mean1" -> {Text(12744, 100), Text(13286, 100)}
      [] mode = "two-means" /\ id = "sd2" -> {Text(1823, 100), Text(0, 0)}
      [] mode = "two-means" /\ id = "ratio" -> {Text(1, 1), Text(5, 10), Text(0, 1)}
      [] OTHER -> {}

\* The values inputsState[id] takes in a mode
StateValues(mode, id) ==
    IF InputOf(mode, id).type = "checkbox" THEN BOOLEAN
    ELSE {NumberOf(InputOf(mode, id).val)}
            \union {ParseFloat(text) : text \in InputValues(mode, id)}

\* The values inputsState takes in a mode, over the inputs ids
RECURSIVE StatesOver(_, _)
StatesOver(mode, ids) ==
    IF ids = {} THEN {<<>>}
    ELSE Let(CHOOSE id \in ids : TRUE, LAMBDA id :
             {(id :> v) @@ st : v \in StateValues(mode, id),
                                st \in StatesOver(mode, ids \ {id})})

\* MODES[mode].calc(inputsState) for every value of inputsState in a mode
CalcTable(mode) ==
    [st \in StatesOver(mode, InputIds(mode)) |-> MODES_calc(mode, st)] @@ <<>>

\* The tables of the modes, in the order of MODES
CalcTables ==
    ("prevalence" :> CalcTable("prevalence"))
        @@ ("case-control" :> CalcTable("case-control"))
        @@ ("cohort" :> CalcTable("cohort"))
        @@ ("rct" :> CalcTable("rct"))
        @@ ("two-means" :> CalcTable("two-means"))

\* The arguments of the Z-score functions that are tried: whole percentages
\* around the tables, values between them, and what is no percentage.
ZSpan == 12

ZArgs ==
    {Text(p, 1) : p \in (80 - ZSpan)..(99 + ZSpan)}
        \union {Text(10 * p + 5, 10) : p \in 79..99}
        \union {Text(0, 0), Text(1, 0), Text(-1, 0), Text(0, 1), Text(-90, 1)}

\* ------------------------------------------------------------------------
\* drawPopulationGrid: the layout of the dots of the two groups
\* ------------------------------------------------------------------------
PRESET_SIZES == <<20, 15, 12, 10, 8, 6, 5, 4, 3>>

\* getCapacity(cellSize) on a canvas of w by h, where groupW is
\* (w - 2 * 20 - 40) / 2 and groupH is h - 80: the floor of a quotient of
\* such small integers is the integer quotient.
getCapacity(w, h, cellSize) ==
    ((w - 2 * 20 - 40) \div (2 * cellSize)) * ((h - 80) \div cellSize)

\* A loop that tries the smallest size only
FirstFitSmallest(w, h, maxN, i) ==
    IF maxN <= getCapacity(w, h, 3) THEN 3 ELSE 0

\* The for loop over PRESET_SIZES from its i-th size: the first size whose
\* capacity holds maxN, and 0 when the loop ends without a break.
RECURSIVE FirstFit(_, _, _, _)
FirstFit(w, h, maxN, i) ==
    IF i > Len(PRESET_SIZES) THEN 0
    ELSE IF maxN <= getCapacity(w, h, PRESET_SIZES[i]) THEN PRESET_SIZES[i]
    ELSE FirstFit(w, h, maxN, i + 1)

\* Math.ceil(n / d) for integers n >= 0 and d > 0
CeilDiv(n, d) == -((-n) \div d)

\* The scale rounded down
ScaleOfFloor(maxN, maxCap) ==
    IF maxCap = 0 THEN [inf |-> TRUE, v |-> 0]
    ELSE [inf |-> FALSE, v |-> maxN \div maxCap]

\* scale = Math.ceil(maxN / maxCap) for maxN > maxCap >= 0: maxN / 0 is
\* Infinity.  A scale is written [inf |-> whether it is Infinity, v |-> its
\* value when it is not].
ScaleOf(maxN, maxCap) ==
    IF maxCap = 0 THEN [inf |-> TRUE, v |-> 0]
    ELSE [inf |-> FALSE, v |-> CeilDiv(maxN, maxCap)]

\* Math.ceil(n / scale): n / Infinity is 0
Scaled(n, scale) == IF scale.inf THEN 0 ELSE CeilDiv(n, scale.v)

\* The legend text: which sentence, and whether " (High Density)" follows
Legend(scale, bestCellSize) ==
    [text |-> IF scale.inf \/ scale.v > 1
              THEN "* 1 Dot ~ scale Participants"
              ELSE "* 1 Dot = 1 Participant (Actual Size)",
     highDensity |-> bestCellSize <= 4]

\* The safety break of drawGroup in row r: cy > h - 40, where
\* cy = 70 + r * bestCellSize + bestCellSize / 2 (compared in halves)
RowCut(h, cellSize, r) == 2 * 70 + 2 * r * cellSize + cellSize > 2 * (h - 40)

\* The rows that the dots 0 .. totalDots - 1 take, r = Math.floor(i / cols)
RowsOf(cols, totalDots) == 0..(CeilDiv(totalDots, cols) - 1)

\* The dots that the for loop of drawGroup draws: it ends at the first i
\* whose row is cut, which is the first dot of that row.  Without columns
\* there are no dots to draw, as the capacity of every size is 0.
DotsDrawn(h, cols, cellSize, totalDots) ==
    IF cols = 0 \/ totalDots = 0 THEN 0
    ELSE Let({r \in RowsOf(cols, totalDots) : RowCut(h, cellSize, r)}, LAMBDA cut :
             IF cut = {} THEN totalDots
             ELSE cols * (CHOOSE r \in cut : \A o \in cut : r <= o))

\* What drawPopulationGrid computes before it draws, n1 and n2 being
\* data.n1 || 0 and data.n2 || 0, and fit the size the loop ended with
GridOf(w, h, n1, n2, fit) ==
    Let2(IF fit = 0 THEN 3 ELSE fit,
         IF fit = 0
         THEN ScaleOf(IF n1 > n2 THEN n1 ELSE n2, getCapacity(w, h, 3))
         ELSE [inf |-> FALSE, v |-> 1],
         LAMBDA bestCellSize, scale :
         [bestCellSize |-> bestCellSize,
          scale |-> scale,
          sN1 |-> Scaled(n1, scale),
          sN2 |-> Scaled(n2, scale),
          cols |-> (w - 2 * 20 - 40) \div (2 * bestCellSize),
          dots1 |-> DotsDrawn(h, (w - 2 * 20 - 40) \div (2 * bestCellSize),
                              bestCellSize, Scaled(n1, scale)),
          dots2 |-> DotsDrawn(h, (w - 2 * 20 - 40) \div (2 * bestCellSize),
                              bestCellSize, Scaled(n2, scale)),
          legend |-> Legend(scale, bestCellSize)])

drawPopulationGrid(w, h, n1, n2) ==
    GridOf(w, h, n1, n2, FirstFit(w, h, IF n1 > n2 THEN n1 ELSE n2, 1))

\* ------------------------------------------------------------------------
\* The entries of Call
\* ------------------------------------------------------------------------
Call(f, args) ==
    CASE Len(args) = 0 ->
           IF f = "DefaultStates" THEN [mode \in Modes |-> DefaultStateOf(mode)] @@ <<>>
           ELSE CalcTables
      [] f = "FromInt" -> IntNumber(args[1])
      [] f = "*" -> Product(args[1], args[2])
      [] f = "/" -> Quotient(args[1], args[2])
      [] f = "+" -> Sum(args[1], args[2])
      [] f = "Math.sqrt" -> SquareRoot(args[1])
      [] f = "Math.ceil" -> Ceiling(args[1])
      [] f = "parseFloat" -> ParseFloat(args[1])
      [] f = "getZBeta" -> getZBeta(ParseFloat(args[1]))
      [] f = "getZAlpha" -> getZAlpha(ParseFloat(args[1]))
      [] f = "|| 0" -> ToInt(OrElse(args[1], Zero))
      [] f = "zb" ->
           Let(ParseInt(ParseFloat(args[1])), LAMBDA power :
           Let(Complement(power), LAMBDA beta : ZBetaOfBeta(beta)))
      [] f = "za" ->
           Let(OrElse(ParseInt(ParseFloat(args[1])), FromInt(95)), LAMBDA conf :
           Let(Complement(conf), LAMBDA alpha : ZAlphaOfAlpha(alpha)))

\* Computed once:
DefaultStates == Call("DefaultStates", <<>>)
calcResults == Call("CalcTable", <<>>)

DefaultState(mode) == DefaultStates[mode]

\* calculate() reading the parameters the mode was set up with
calculateDefaults(mode, state) == Show(Shown(calcResults[mode][DefaultState(mode)]))

\* calculate(), with currentMode = mode and inputsState = state
calculate(mode, state) == Show(Shown(calcResults[mode][state]))

\* setupMode without the reset of inputsState to {} and with the values of
\* the ids that the mode left shares with the new one kept
setupModeKeepShared(mode) ==
    /\ currentMode' = mode
    /\ formulaDisplay' = "formulaStr"
    /\ inputsState' = [id \in InputIds(mode) \union DOMAIN inputsState |->
                          IF id \in DOMAIN inputsState THEN inputsState[id]
                          ELSE DefaultState(mode)[id]]
    /\ popGroupDisplay' = "none"
    /\ Show(Shown(MODES_calc(mode, inputsState')))
    /\ UNCHANGED <<sampleCanvas, gridLayout, zArg, zRet, frameVars>>

\* setupMode(mode)
setupMode(mode) ==
    /\ currentMode' = mode
    /\ formulaDisplay' = "formulaStr"
    /\ inputsState' = DefaultState(mode)
    /\ popGroupDisplay' = "none"
    /\ calculate(mode, inputsState')
    /\ UNCHANGED <<sampleCanvas, gridLayout, zArg, zRet, frameVars>>

\* The 'change' listener of the checkbox id, the box now being checked or not
OnChange(id, checked) ==
    /\ id \in InputIds(currentMode)
    /\ InputOf(currentMode, id).type = "checkbox"
    /\ checked = ~inputsState[id]
    /\ inputsState' = [inputsState EXCEPT ![id] = checked]
    /\ IF id = "fpc"
       THEN /\ popGroupDisplay' = IF checked THEN "flex" ELSE "none"
            /\ formulaDisplay' = IF currentMode = "prevalence"
                                 THEN (IF checked THEN "N_adjusted" ELSE "formulaStr")
                                 ELSE formulaDisplay
       ELSE UNCHANGED <<popGroupDisplay, formulaDisplay>>
    /\ calculate(currentMode, inputsState')
    /\ UNCHANGED <<currentMode, sampleCanvas, gridLayout, zArg, zRet, frameVars>>

\* An 'input' listener that stores the value and does not call calculate()
OnInputNoCalculate(id, val) ==
    /\ id \in InputIds(currentMode)
    /\ InputOf(currentMode, id).type \in {"range", "number"}
    /\ id = "popSize" => popGroupDisplay = "flex"
    /\ val \in InputValues(currentMode, id)
    /\ inputsState' = [inputsState EXCEPT ![id] = Call("parseFloat", <<val>>)]
    /\ UNCHANGED <<nValueDisplay, dynamicParamsDisplay, interpretationTable,
                   currentVisualData>>
    /\ UNCHANGED <<currentMode, popGroupDisplay, formulaDisplay,
                   sampleCanvas, gridLayout, zArg, zRet, frameVars>>

\* The 'input' listener of the slider or number field id, val its text
OnInput(id, val) ==
    /\ id \in InputIds(currentMode)
    /\ InputOf(currentMode, id).type \in {"range", "number"}
    /\ id = "popSize" => popGroupDisplay = "flex"
    /\ val \in InputValues(currentMode, id)
    /\ inputsState' = [inputsState EXCEPT ![id] = Call("parseFloat", <<val>>)]
    /\ calculate(currentMode, inputsState')
    /\ UNCHANGED <<currentMode, popGroupDisplay, formulaDisplay,
                   sampleCanvas, gridLayout, zArg, zRet, frameVars>>

AllIds == UNION {InputIds(m) : m \in Modes}

AllValues == UNION {InputValues(m, id) : m \in Modes, id \in AllIds}

\* init(): the mode that the selector shows is set up
\* init() ends in loop(), which requests the first frame for itself; the
\* window has the size of the page as it loads
FirstFrameRequested ==
    /\ frameRequests = [loop |-> 1, resize |-> 0]
    /\ windowSize = [width |-> 1024, height |-> 768]

Init ==
    /\ FirstFrameRequested
    /\ zArg = Text(0, 0)
    /\ zRet = Null
    /\ sampleCanvas = [w |-> 0, h |-> 0]
    /\ gridLayout = Null
    /\ \E mode \in Modes :
          /\ currentMode = mode
          /\ inputsState = DefaultState(mode)
          /\ popGroupDisplay = "none"
          /\ formulaDisplay = "formulaStr"
          /\ LET shown == Shown(calcResults[mode][inputsState])
             IN  /\ nValueDisplay = shown.nValueDisplay
                 /\ dynamicParamsDisplay = shown.dynamicParamsDisplay
                 /\ interpretationTable = shown.interpretationTable
                 /\ currentVisualData = shown.currentVisualData

Next ==
    \/ \E mode \in Modes : setupMode(mode)
    \/ \E id \in AllIds, checked \in BOOLEAN : OnChange(id, checked)
    \/ \E id \in AllIds, val \in AllValues : OnInput(id, val)

Spec == Init /\ [][Next]_vars

\* ------------------------------------------------------------------------
\* The Z-score functions on their own: an argument is drawn, and each
\* function is called with it.
\* ------------------------------------------------------------------------
ZInit ==
    /\ FirstFrameRequested
    /\ zArg \in ZArgs
    /\ zRet = Null
    /\ sampleCanvas = [w |-> 0, h |-> 0]
    /\ gridLayout = Null
    /\ currentMode = "prevalence"
    /\ inputsState = DefaultState("prevalence")
    /\ popGroupDisplay = "none"
    /\ formulaDisplay = "formulaStr"
    /\ nValueDisplay = Null
    /\ dynamicParamsDisplay = Null
    /\ interpretationTable = Null
    /\ currentVisualData = Null

CallGetZBeta ==
    /\ zRet' = [f |-> "getZBeta", value |-> Call("getZBeta", <<zArg>>)]
    /\ UNCHANGED <<pageVars, currentVisualData, sampleCanvas, gridLayout, zArg, frameVars>>

CallGetZAlpha ==
    /\ zRet' = [f |-> "getZAlpha", value |-> Call("getZAlpha", <<zArg>>)]
    /\ UNCHANGED <<pageVars, currentVisualData, sampleCanvas, gridLayout, zArg, frameVars>>

\* zb of calculateAdvanced as a calculator reaches it:
\* power = parseInt(state.power), beta = (100 - power) / 100
LookupZBeta ==
    /\ zRet' = [f |-> "zb", value |-> Call("zb", <<zArg>>)]
    /\ UNCHANGED <<pageVars, currentVisualData, sampleCanvas, gridLayout, zArg, frameVars>>

\* za of calculateAdvanced as a calculator reaches it:
\* conf = parseInt(state.confidence) || 95, alpha = (100 - conf) / 100
LookupZAlpha ==
    /\ zRet' = [f |-> "za", value |-> Call("za", <<zArg>>)]
    /\ UNCHANGED <<pageVars, currentVisualData, sampleCanvas, gridLayout, zArg, frameVars>>

ZNext == CallGetZBeta \/ CallGetZAlpha \/ LookupZBeta \/ LookupZAlpha

ZSpec == ZInit /\ [][ZNext]_vars
\* ------------------------------------------------------------------------
\* The drawing on its own: a canvas and the counts of two groups are drawn,
\* and loop() lays the grid out.
\* ------------------------------------------------------------------------
\* The side of the largest canvas, and the largest count of a group
CanvasSide == 200
MaxDots == 100000

\* Canvases: group areas from 2 by 3 pixels (no cell of 3 fits) up.
CanvasWidths == {80 + 4, 80 + 41, CanvasSide}
CanvasHeights == {80 + 3, 80 + 20, CanvasSide - 60}

\* Counts around the capacities of the cell sizes
DotCounts == {0, 1, 9, 10, 17, 50, 101, 226, 400, 401, MaxDots}

GridInit ==
    /\ FirstFrameRequested
    /\ currentMode = "rct"
    /\ inputsState = DefaultState("rct")
    /\ popGroupDisplay = "none"
    /\ formulaDisplay = "formulaStr"
    /\ nValueDisplay = Null
    /\ dynamicParamsDisplay = Null
    /\ interpretationTable = Null
    /\ zArg = Text(0, 0)
    /\ zRet = Null
    /\ gridLayout = Null
    /\ \E w \in CanvasWidths, h \in CanvasHeights : sampleCanvas = [w |-> w, h |-> h]
    /\ \E n1 \in DotCounts, n2 \in DotCounts :
          currentVisualData = [k |-> "obj", n1 |-> Call("FromInt", <<n1>>),
                               n2 |-> Call("FromInt", <<n2>>),
                               label1 |-> "Group 1", label2 |-> "Group 2"]

\* The branch of loop() that draws the grid:
\* currentMode !== 'prevalence' and currentVisualData is truthy
DrawsGrid == currentMode # "prevalence" /\ IsObject(currentVisualData)

\* loop(), in a mode other than prevalence and with data to draw
loop ==
    /\ DrawsGrid
    /\ gridLayout' = drawPopulationGrid(sampleCanvas.w, sampleCanvas.h,
                                        Call("|| 0", <<currentVisualData.n1>>),
                                        Call("|| 0", <<currentVisualData.n2>>))
    /\ UNCHANGED <<pageVars, currentVisualData, sampleCanvas, zArg, zRet, frameVars>>

\* A second frame of the same canvas and data
GridNext == loop

GridSpec == GridInit /\ [][GridNext]_vars

\* ------------------------------------------------------------------------
\* The frames: init() has run, the ResizeObserver notifies of the size of
\* the canvas, the window is resized, and the browser runs the callbacks
\* requested for a frame.
\* ------------------------------------------------------------------------
\* The most callbacks of loop and of the observer that are followed
MaxLoops == 5
MaxResizeRequests == 2

WindowSizes == {[width |-> 1024, height |-> 768], [width |-> 800, height |-> 600],
                [width |-> 360, height |-> 640]}

\* init(), with the canvas at the size of its parent
FrameInit ==
    /\ FirstFrameRequested
    /\ zArg = Text(0, 0)
    /\ zRet = Null
    /\ gridLayout = Null
    /\ \E w \in CanvasWidths, h \in CanvasHeights : sampleCanvas = [w |-> w, h |-> h]
    /\ \E mode \in Modes :
          /\ currentMode = mode
          /\ inputsState = DefaultState(mode)
          /\ popGroupDisplay = "none"
          /\ formulaDisplay = "formulaStr"
          /\ LET shown == Shown(calcResults[mode][inputsState])
             IN  /\ nValueDisplay = shown.nValueDisplay
                 /\ dynamicParamsDisplay = shown.dynamicParamsDisplay
                 /\ interpretationTable = shown.interpretationTable
                 /\ currentVisualData = shown.currentVisualData

\* The callback of the ResizeObserver: it requests a frame for the arrow
\* function that calls resizeSampleCanvas() and loop()
ResizeObserved ==
    /\ frameRequests.resize < MaxResizeRequests
    /\ frameRequests.loop + frameRequests.resize < MaxLoops
    /\ frameRequests' = [frameRequests EXCEPT !.resize = @ + 1]
    /\ UNCHANGED <<pageVars, currentVisualData, sampleCanvas, gridLayout,
                   zArg, zRet, windowSize>>

\* The 'resize' listener of the window: width, height, the background
\* canvas and its particles; it requests no frame
WindowResized ==
    /\ \E size \in WindowSizes : size # windowSize /\ windowSize' = size
    /\ UNCHANGED <<pageVars, currentVisualData, sampleCanvas, gridLayout,
                   zArg, zRet, frameRequests>>

\* A frame: the browser runs the callbacks requested since the last one,
\* in the order of their requests.  Each loop requests the next frame for
\* itself.  Each arrow function of the observer sets the canvas to the
\* size of its rectangle and calls loop(), which draws and requests the
\* next frame for itself as well.
AnimationFrame ==
    /\ frameRequests.loop + frameRequests.resize <= MaxLoops
    /\ frameRequests' = [loop |-> frameRequests.loop + frameRequests.resize,
                         resize |-> 0]
    /\ IF frameRequests.resize > 0
       THEN \E w \in CanvasWidths, h \in CanvasHeights :
                sampleCanvas' = [w |-> w, h |-> h]
       ELSE UNCHANGED sampleCanvas
    /\ IF DrawsGrid
       THEN gridLayout' = drawPopulationGrid(sampleCanvas'.w, sampleCanvas'.h,
                                             Call("|| 0", <<currentVisualData.n1>>),
                                             Call("|| 0", <<currentVisualData.n2>>))
       ELSE UNCHANGED gridLayout
    /\ UNCHANGED <<pageVars, currentVisualData, zArg, zRet, windowSize>>

FrameNext == ResizeObserved \/ WindowResized \/ AnimationFrame

FrameSpec == FrameInit /\ [][FrameNext]_vars

\* ========================================================================
\* Properties
\* ========================================================================
\* The number that is shown large, when a number is shown
ShowsNumber == nValueDisplay # Null /\ nValueDisplay.size = "5rem"
ShownNumber == nValueDisplay.value.of
ShowsInt(n) == ShowsNumber /\ NumEq(ShownNumber, FromInt(n))

Percent(x) == NumDiv(x, FromInt(100))
One == FromInt(1)

\* ------------------------------------------------------------------------
\* Prevalence
\* ------------------------------------------------------------------------
InPrevalence == currentMode = "prevalence"

\* x = 4*(P/100)*(1-P/100)/(D/100)^2
RawSize(P, D) ==
    NumDiv(NumMul(NumMul(FromInt(4), Percent(P)), NumSub(One, Percent(P))),
           Pow2(Percent(D)))

\* The finite-population correction applies: the option is enabled and
\* the population is above 0.
FpcApplies(state) == state["fpc"] /\ NumGt(state["popSize"], Zero)

\* x/(1+x/population)
Corrected(x, population) == NumDiv(x, NumAdd(One, NumDiv(x, population)))

AfterFpc(state, x) == IF FpcApplies(state) THEN Corrected(x, state["popSize"]) ELSE x

AfterDropout(state, x) == IF state["dropout"] THEN NumDiv(x, Dec(9, 10)) ELSE x

PrevalenceSize(state) ==
    NumCeil(AfterDropout(state, AfterFpc(state, RawSize(state["prevalence"],
                                                        state["precision"]))))

PrevalenceIs(P, D) ==
    /\ InPrevalence
    /\ NumEq(inputsState["prevalence"], FromInt(P))
    /\ NumEq(inputsState["precision"], FromInt(D))

\* C1: in the Prevalence calculator n is ceil(x), x being 4*(P/100)*(1-P/100)/(D/100)^2,
\* then x/(1+x/population) if the correction applies, then x/0.9 if dropout
\* is enabled, with one ceiling after both; P=50, D=5 gives 400, 286 with
\* a population of 1000, and 445 with dropout only.
C1_OneCeilingAfterCorrections ==
    /\ InPrevalence => ShowsNumber /\ NumEq(ShownNumber, PrevalenceSize(inputsState))
    /\ PrevalenceIs(50, 5) /\ ~inputsState["fpc"] /\ ~inputsState["dropout"]
          => ShowsInt(400)
    /\ PrevalenceIs(50, 5) /\ inputsState["fpc"] /\ ~inputsState["dropout"]
          /\ NumEq(inputsState["popSize"], FromInt(1000))
          => ShowsInt(286)
    /\ PrevalenceIs(50, 5) /\ ~inputsState["fpc"] /\ inputsState["dropout"]
          => ShowsInt(445)

\* Both corrections have acted on a size that is no integer before them.
C1_Witness ==
    /\ PrevalenceIs(20, 4)
    /\ inputsState["fpc"] /\ inputsState["dropout"]
    /\ NumEq(inputsState["popSize"], FromInt(1000))
    /\ ShowsInt(318)

\* C2: the correction changes n to n/(1+n/population) only when the option
\* is enabled and population > 0; otherwise the step leaves the size as it
\* is, whatever the population.
C2_FpcOnlyWhenEnabledAndPositive ==
    InPrevalence =>
        /\ ShowsNumber
        /\ LET x == RawSize(inputsState["prevalence"], inputsState["precision"])
           IN  NumEq(ShownNumber,
                     NumCeil(AfterDropout(inputsState,
                         IF inputsState["fpc"] /\ NumGt(inputsState["popSize"], Zero)
                         THEN Corrected(x, inputsState["popSize"])
                         ELSE x)))
        /\ ~FpcApplies(inputsState) =>
               NumEq(ShownNumber,
                     calcPrevalence([inputsState EXCEPT !["fpc"] = FALSE,
                                                        !["popSize"] = FromInt(1000)]).n)

\* The option is enabled with a population below 0, and the size is the
\* uncorrected 400.
C2_Witness ==
    /\ PrevalenceIs(50, 5)
    /\ inputsState["fpc"] /\ ~inputsState["dropout"]
    /\ NumLt(inputsState["popSize"], Zero)
    /\ ShowsInt(400)

\* ------------------------------------------------------------------------
\* Z-scores
\* ------------------------------------------------------------------------
Called(f) == zRet # Null /\ zRet.f = f
ZArgIs(p) == zArg = Text(p, 1)
ZArgInt == zArg.scale = 1
Returns(q) == NumEq(zRet.value, Dec(q, 1000))

\* C3: getZBeta(p) is Z_MAP[p] for every integer p in 80..99 (0.842 at 80,
\* 1.282 at 90, 1.645 at 95, 2.326 at 99) and 0.842 for every p that is no
\* key of the table; it never fails.
C3_ZBetaTableOrDefault ==
    Called("getZBeta") =>
        /\ IsOrdinary(zRet.value)
        /\ \A p \in 80..99 : ZArgIs(p) => Returns(Z_MAP[p])
        /\ ZArgIs(80) => Returns(842)
        /\ ZArgIs(90) => Returns(1282)
        /\ ZArgIs(95) => Returns(1645)
        /\ ZArgIs(99) => Returns(2326)
        /\ (\A p \in 80..99 : ~ZArgIs(p)) => Returns(842)

\* getZBeta was called with what is no number at all.
C3_Witness == Called("getZBeta") /\ zArg = Text(0, 0) /\ Returns(842)

\* The result of getZAlpha that C4 names for the whole percentage c
BandOf(c) ==
    CASE c = 90 -> 1645
      [] c = 95 -> 1960
      [] c = 98 -> 2326
      [] c = 99 -> 2576
      [] c < 95 -> 1645
      [] 95 < c /\ c < 98 -> 1960
      [] 98 < c /\ c < 99 -> 2326
      [] OTHER -> 2576

\* C4: getZAlpha(c) is 1.645, 1.96, 2.326, 2.576 at 90, 95, 98, 99, and at
\* any other integer c it is 1.645 below 95, 1.96 between 95 and 98, 2.326
\* between 98 and 99 and 2.576 otherwise; so it does not decrease over 90..99.
C4_ZAlphaBands ==
    Called("getZAlpha") /\ ZArgInt =>
        /\ Returns(BandOf(zArg.q))
        /\ \A c \in 90..zArg.q : zArg.q <= 99 =>
               NumLe(getZAlpha(FromInt(c)), zRet.value)

\* getZAlpha was called between two keys of the table.
C4_Witness == Called("getZAlpha") /\ ZArgIs(96) /\ Returns(1960)

\* ------------------------------------------------------------------------
\* The comparative designs and calculateAdvanced
\* ------------------------------------------------------------------------
Comparative == currentMode \in {"case-control", "cohort", "rct"}

\* A table of methods is shown: calc has called calculateAdvanced
HasTable == Comparative /\ interpretationTable # Null

PositiveRatio == NumGt(inputsState["ratio"], Zero)

\* p1 = OR*p0/(1+p0*(OR-1))
DerivedP1(OR, p0) == NumDiv(NumMul(OR, p0), NumAdd(One, NumMul(p0, NumSub(OR, One))))

\* The proportions that calculateAdvanced is given as p1 and p2
EstimatorP1 ==
    CASE currentMode = "cohort" -> Percent(inputsState["p_exposed"])
      [] currentMode = "rct" -> Percent(inputsState["p2"])
      [] currentMode = "case-control" ->
             DerivedP1(inputsState["or"], Percent(inputsState["p_controls"]))

EstimatorP2 ==
    CASE currentMode = "cohort" -> Percent(inputsState["p_unexposed"])
      [] currentMode = "rct" -> Percent(inputsState["p1"])
      [] currentMode = "case-control" -> Percent(inputsState["p_controls"])

ZAlphaOfState == getZAlpha(inputsState["confidence"])
ZBetaOfState == getZBeta(inputsState["power"])

\* pAvg = (p1 + r*p2)/(1+r)
PAvg(p1, p2, r) == NumDiv(NumAdd(p1, NumMul(r, p2)), NumAdd(One, r))

\* ceil((zAlpha+zBeta)^2 * pAvg*(1-pAvg) * (r+1) / (r*(p1-p2)^2))
KelseyOf(za, zb, p1, p2, r) ==
    NumCeil(NumDiv(NumMul(NumMul(Pow2(NumAdd(za, zb)),
                                 NumMul(PAvg(p1, p2, r), NumSub(One, PAvg(p1, p2, r)))),
                          NumAdd(r, One)),
                   NumMul(r, Pow2(NumSub(p1, p2)))))

\* The row n1, n2 = ceil(n1*r), total = n1 + n2
RowOf(n1, r) == <<n1, NumCeil(NumMul(n1, r)), NumAdd(n1, NumCeil(NumMul(n1, r)))>>

\* C5: with dropout disabled the Kelsey estimate of calculateAdvanced is
\* n1 = ceil((zAlpha+zBeta)^2 * pAvg*(1-pAvg) * (r+1) / (r*(p1-p2)^2)) with
\* pAvg = (p1 + r*p2)/(1+r), n2 = ceil(n1*r) and total = n1 + n2.
C5_KelseyFormula ==
    HasTable /\ PositiveRatio /\ ~inputsState["dropout"] =>
        interpretationTable.kelsey =
            RowOf(KelseyOf(ZAlphaOfState, ZBetaOfState, EstimatorP1, EstimatorP2,
                           inputsState["ratio"]),
                  inputsState["ratio"])

\* A cohort with one unexposed for two exposed, at 90% power
C5_Witness ==
    /\ currentMode = "cohort" /\ HasTable /\ ~inputsState["dropout"]
    /\ NumEq(inputsState["ratio"], Dec(5, 10))
    /\ NumEq(inputsState["power"], FromInt(90))
    /\ NumEq(interpretationTable.kelsey[3],
             NumAdd(interpretationTable.kelsey[1], interpretationTable.kelsey[2]))

PosInt(x) == IsInt(x) /\ NumGt(x, Zero)

\* n1 and n2 are positive integers and total = n1 + n2
GoodRow(row) == PosInt(row[1]) /\ PosInt(row[2]) /\ NumEq(row[3], NumAdd(row[1], row[2]))

\* The inputs of the two-means design are valid: unequal means, standard
\* deviations and ratio above 0
ValidTwoMeans ==
    /\ currentMode = "two-means"
    /\ ~NumEq(inputsState["mean1"], inputsState["mean2"])
    /\ NumGt(inputsState["sd1"], Zero) /\ NumGt(inputsState["sd2"], Zero)
    /\ PositiveRatio

\* C6: for every design and every valid input each estimate (Kelsey,
\* Fleiss, Fleiss-CC, and the one of TwoMeans) has n1 and n2 positive
\* integers and total = n1 + n2, and the Prevalence result is a positive integer.
C6_PositiveIntegerCounts ==
    /\ HasTable /\ PositiveRatio =>
          /\ GoodRow(interpretationTable.kelsey)
          /\ GoodRow(interpretationTable.fleiss)
          /\ GoodRow(interpretationTable.fleiss_cc)
    /\ ValidTwoMeans =>
          /\ ShowsNumber
          /\ GoodRow(<<currentVisualData.n1, currentVisualData.n2, ShownNumber>>)
    /\ InPrevalence => ShowsNumber /\ PosInt(ShownNumber)

\* A ratio of one half has halved an odd count
C6_Witness ==
    /\ HasTable /\ NumEq(inputsState["ratio"], Dec(5, 10))
    /\ ~IsInt(NumMul(interpretationTable.fleiss[1], inputsState["ratio"]))
    /\ GoodRow(interpretationTable.fleiss)

\* The table that the same inputs give with dropout disabled
WithoutDropout ==
    calcResults[currentMode][[inputsState EXCEPT !["dropout"] = FALSE]].table

\* ceil(n1_rounded / 0.9)
Inflated(n1_rounded) == NumCeil(NumDiv(n1_rounded, Dec(9, 10)))

\* C7: with dropout enabled each method's count is ceil(n1_rounded / 0.9),
\* n1_rounded being the method's rounded count, the paired count is
\* ceil(n1_corrected * r), derived after the dropout step, and the total is
\* their sum.
C7_DropoutBeforeRatio ==
    HasTable /\ PositiveRatio /\ inputsState["dropout"] =>
        /\ interpretationTable.kelsey =
               RowOf(Inflated(WithoutDropout.kelsey.n1), inputsState["ratio"])
        /\ interpretationTable.fleiss =
               RowOf(Inflated(WithoutDropout.fleiss.n1), inputsState["ratio"])
        /\ interpretationTable.fleiss_cc =
               RowOf(Inflated(WithoutDropout.fleiss_cc.n1), inputsState["ratio"])

\* Dropout with a ratio of one half: the paired count is not the inflated
\* paired count of the table without dropout
C7_Witness ==
    /\ HasTable /\ inputsState["dropout"] /\ NumEq(inputsState["ratio"], Dec(5, 10))
    /\ ~NumEq(interpretationTable.kelsey[2], Inflated(WithoutDropout.kelsey.n2))

\* The result of calc for the inputs of the state
Result == calcResults[currentMode][inputsState]

RowOfEstimate(est) == <<est.n1, est.n2, est.total>>

InCaseControl == currentMode = "case-control"

\* The estimator called as (p1, p0, r), p1 = OR*p0/(1+p0*(OR-1))
CaseControlEstimator ==
    calculateAdvanced(DerivedP1(inputsState["or"], Percent(inputsState["p_controls"])),
                      Percent(inputsState["p_controls"]),
                      inputsState["ratio"],
                      Complement(inputsState["confidence"]),
                      Complement(inputsState["power"]),
                      inputsState["dropout"])

\* C9: for CaseControl with a numeric result p1 is OR*p0/(1+p0*(OR-1)), the
\* estimator is called as (p1, p0, r), 'Controls' carries its n2 and
\* 'Cases' its n1; hence Controls = ceil(Cases * r).
C9_CaseControlMapping ==
    InCaseControl /\ HasTable /\ PositiveRatio =>
        /\ interpretationTable.kelsey = RowOfEstimate(CaseControlEstimator.kelsey)
        /\ interpretationTable.fleiss = RowOfEstimate(CaseControlEstimator.fleiss)
        /\ interpretationTable.fleiss_cc = RowOfEstimate(CaseControlEstimator.fleiss_cc)
        /\ interpretationTable.head = <<"Method", "Cases", "Controls", "Total">>
        /\ currentVisualData.label1 = "Controls"
        /\ currentVisualData.n1 = CaseControlEstimator.fleiss.n2
        /\ currentVisualData.label2 = "Cases"
        /\ currentVisualData.n2 = CaseControlEstimator.fleiss.n1
        /\ \A row \in {interpretationTable.kelsey, interpretationTable.fleiss,
                        interpretationTable.fleiss_cc} :
               NumEq(row[2], NumCeil(NumMul(row[1], inputsState["ratio"])))

\* One control for two cases: fewer controls than cases
C9_Witness ==
    /\ InCaseControl /\ HasTable /\ NumEq(inputsState["ratio"], Dec(5, 10))
    /\ currentVisualData.label1 = "Controls"
    /\ NumLt(currentVisualData.n1, currentVisualData.n2)

\* ------------------------------------------------------------------------
\* Error outcomes
\* ------------------------------------------------------------------------
\* The large display holds an error tag, and no number
ShowsErrorTag == nValueDisplay # Null /\ IsString(nValueDisplay.value)

\* |OR - 1| < 0.001
NearOne(OR) == NumLt(NumAbs(NumSub(OR, One)), Dec(1, 1000))

\* C10: for CaseControl, whenever |OR - 1| < 0.001 (OR = 1.0005, say) the
\* result is the error outcome InfiniteSampleSize: the primary value is an
\* error tag and no number, and no estimate is computed.
C10_NoEffectIsError ==
    InCaseControl /\ NearOne(inputsState["or"]) =>
        ShowsErrorTag /\ interpretationTable = Null

\* OR = 1.0005 has been typed, and the number 0 is shown large
C10_Witness ==
    /\ InCaseControl /\ NumEq(inputsState["or"], Dec(10005, 10000))
    /\ ShowsInt(0)
    /\ dynamicParamsDisplay = Str("OR=1 implies no effect. N is infinite.")

\* C11: for CaseControl with |OR - 1| >= 0.001, whenever the derived
\* p1 = OR*p0/(1+p0*(OR-1)) exceeds 0.999 the result is the error
\* ImpossibleInputs, with a primary value that is no number and no table of
\* methods, and the estimator is not invoked.
C11_ImpossibleInputs ==
    /\ InCaseControl
    /\ ~NearOne(inputsState["or"])
    /\ NumGt(DerivedP1(inputsState["or"], Percent(inputsState["p_controls"])), Dec(999, 1000))
    => /\ nValueDisplay = [size |-> "3rem", value |-> Str("Error"), sub |-> ""]
       /\ dynamicParamsDisplay =
              Str("Impossible inputs: P1 > 100%. Lower Baseline or OR.")
       /\ interpretationTable = Null
       /\ ~IsObject(currentVisualData)

\* An odds ratio of 5000 on a baseline of 30%
C11_Witness ==
    /\ InCaseControl /\ NumEq(inputsState["or"], FromInt(5000))
    /\ ShowsErrorTag /\ interpretationTable = Null

\* |p1 - p2| < 0.0001
SameProportions(p1, p2) == NumLt(NumAbs(NumSub(p1, p2)), Dec(1, 10000))

\* The separation of the denominator of the design is zero
ZeroSeparation ==
    CASE currentMode = "cohort" ->
             SameProportions(Percent(inputsState["p_exposed"]),
                             Percent(inputsState["p_unexposed"]))
      [] currentMode = "rct" ->
             SameProportions(Percent(inputsState["p1"]), Percent(inputsState["p2"]))
      [] currentMode = "two-means" -> NumEq(inputsState["mean1"], inputsState["mean2"])
      [] OTHER -> FALSE

\* C12: every comparison design returns an error tag and no numeric result
\* whenever the separation of its denominator is zero: Cohort and RCT when
\* |p1 - p2| < 0.0001 (p1 = p2 = 50%, say), TwoMeans when mean1 = mean2;
\* and then nothing is divided by (p1-p2)^2 or (mean1-mean2)^2.
C12_EqualIsError ==
    /\ ZeroSeparation =>
          /\ nValueDisplay = [size |-> "3rem", value |-> Str("Error"), sub |-> ""]
          /\ interpretationTable = Null
          /\ ~IsObject(currentVisualData)
    /\ currentMode = "rct" /\ NumEq(inputsState["p1"], FromInt(50))
          /\ NumEq(inputsState["p2"], FromInt(50))
          => ShowsErrorTag

\* An RCT with both proportions at 50%
C12_Witness ==
    /\ currentMode = "rct"
    /\ NumEq(inputsState["p1"], FromInt(50)) /\ NumEq(inputsState["p2"], FromInt(50))
    /\ ShowsErrorTag
    /\ dynamicParamsDisplay = Str("P1 and P2 cannot be equal.")

\* ------------------------------------------------------------------------
\* RCT and TwoMeans
\* ------------------------------------------------------------------------
\* The estimator called as (P2, P1, r)
RctEstimator ==
    calculateAdvanced(Percent(inputsState["p2"]), Percent(inputsState["p1"]),
                      inputsState["ratio"],
                      Complement(inputsState["confidence"]),
                      Complement(inputsState["power"]),
                      inputsState["dropout"])

\* C13: for RCT with proportions P1 (Group 1), P2 (Group 2) and ratio r the
\* estimator is invoked as (P2, P1, r), so the pooled proportion is
\* (P2 + r*P1)/(1+r); its n1 is reported as Group 2 and its n2 as Group 1,
\* hence Group 1 = ceil(Group 2 * r).
C13_RctMapping ==
    currentMode = "rct" /\ HasTable /\ PositiveRatio =>
        /\ interpretationTable.kelsey = RowOfEstimate(RctEstimator.kelsey)
        /\ interpretationTable.fleiss = RowOfEstimate(RctEstimator.fleiss)
        /\ interpretationTable.fleiss_cc = RowOfEstimate(RctEstimator.fleiss_cc)
        /\ ~inputsState["dropout"] =>
               NumEq(interpretationTable.kelsey[1],
                     KelseyOf(ZAlphaOfState, ZBetaOfState, Percent(inputsState["p2"]),
                              Percent(inputsState["p1"]), inputsState["ratio"]))
        /\ interpretationTable.head = <<"Method", "Group 2", "Group 1", "Total">>
        /\ currentVisualData.label1 = "Group 1"
        /\ currentVisualData.n1 = RctEstimator.fleiss.n2
        /\ currentVisualData.label2 = "Group 2"
        /\ currentVisualData.n2 = RctEstimator.fleiss.n1
        /\ NumEq(currentVisualData.n1,
                 NumCeil(NumMul(currentVisualData.n2, inputsState["ratio"])))

\* One of Group 1 for two of Group 2
C13_Witness ==
    /\ currentMode = "rct" /\ HasTable /\ NumEq(inputsState["ratio"], Dec(5, 10))
    /\ currentVisualData.label1 = "Group 1"
    /\ NumLt(currentVisualData.n1, currentVisualData.n2)

\* ceil((zAlpha+zBeta)^2 * (sd1^2 + sd2^2/r) / (mean1-mean2)^2)
TwoMeansOf(za, zb, sd1, sd2, r, mean1, mean2) ==
    NumCeil(NumDiv(NumMul(Pow2(NumAdd(za, zb)),
                          NumAdd(Pow2(sd1), NumDiv(Pow2(sd2), r))),
                   Pow2(NumSub(mean1, mean2))))

TwoMeansN1OfState ==
    LET n1 == TwoMeansOf(ZAlphaOfState, ZBetaOfState, inputsState["sd1"],
                         inputsState["sd2"], inputsState["ratio"],
                         inputsState["mean1"], inputsState["mean2"])
    IN  IF inputsState["dropout"] THEN Inflated(n1) ELSE n1

\* C14: for TwoMeans with mean1 # mean2, sd1, sd2 > 0 and r > 0,
\* n1 = ceil((zAlpha+zBeta)^2 * (sd1^2 + sd2^2/r) / (mean1-mean2)^2), then
\* ceil(n1/0.9) if dropout is enabled, n2 = ceil(n1*r), the primary value is
\* n1 + n2 and the counts are Group 1 = n1 and Group 2 = n2.
C14_TwoMeansFormula ==
    ValidTwoMeans =>
        /\ ShowsNumber
        /\ <<currentVisualData.n1, currentVisualData.n2, ShownNumber>>
               = RowOf(TwoMeansN1OfState, inputsState["ratio"])
        /\ currentVisualData.label1 = "Group 1"
        /\ currentVisualData.label2 = "Group 2"
        /\ interpretationTable = Null

\* Two means with dropout and one of Group 2 for two of Group 1
C14_Witness ==
    /\ ValidTwoMeans /\ inputsState["dropout"]
    /\ NumEq(inputsState["ratio"], Dec(5, 10))
    /\ ShowsNumber
    /\ NumLt(currentVisualData.n2, currentVisualData.n1)

\* The design takes an allocation ratio
TakesRatio == currentMode \in {"case-control", "cohort", "rct", "two-means"}

\* C15: for every design that takes an allocation ratio, a ratio <= 0
\* yields the error result InvalidRatio and never a numeric sample size.
C15_InvalidRatioIsError ==
    TakesRatio /\ NumLe(inputsState["ratio"], Zero) => ShowsErrorTag

\* A ratio of 0 in a case-control study with its other inputs as set up:
\* the table of a ratio of 1 is shown
C15_Witness ==
    /\ InCaseControl /\ IsZero(inputsState["ratio"])
    /\ HasTable /\ ShowsNumber
    /\ interpretationTable.kelsey[1] = interpretationTable.kelsey[2]

\* C16: no calculator returns or displays a primary value that is NaN or
\* Infinity: with a malformed input (a field that is NaN after an empty
\* text box, say) the calculation is rejected with an error result.
C16_NoNonFiniteDisplay ==
    ShowsNumber => IsFinite(ShownNumber)

\* The field of sd2 was emptied, and NaN is shown large
C16_Witness ==
    /\ currentMode = "two-means" /\ IsNaN(inputsState["sd2"])
    /\ ShowsNumber /\ IsNaN(ShownNumber)

\* ------------------------------------------------------------------------
\* The grid packer
\* ------------------------------------------------------------------------
Drawn == gridLayout # Null

\* The counts of the two groups, and the larger one
GridN1 == ToInt(currentVisualData.n1)
GridN2 == ToInt(currentVisualData.n2)
GridMax == Max(GridN1, GridN2)

\* capacity(s) = floor(W/s) * floor(H/s) on the area of one group: W is
\* half of the width left by the paddings of 20 and the gap of 40, H is the
\* height less 80.
AreaCapacity(s) ==
    ((sampleCanvas.w - 80) \div (2 * s)) * ((sampleCanvas.h - 80) \div s)

Presets == {20, 15, 12, 10, 8, 6, 5, 4, 3}

Fitting == {s \in Presets : AreaCapacity(s) >= GridMax}

\* C17: whenever at least one preset size s has capacity(s) >= max(n1,n2),
\* the chosen cell size is the largest such s, the scale is 1, and the
\* scaled counts are n1 and n2 exactly.
C17_LargestFittingPreset ==
    Drawn /\ Fitting # {} =>
        /\ gridLayout.bestCellSize \in Fitting
        /\ \A s \in Fitting : s <= gridLayout.bestCellSize
        /\ gridLayout.scale = [inf |-> FALSE, v |-> 1]
        /\ gridLayout.sN1 = GridN1
        /\ gridLayout.sN2 = GridN2

\* Two sizes fit, and the larger of them is chosen
C17_Witness ==
    /\ Drawn /\ GridMax > 0
    /\ Cardinality(Fitting) >= 2 /\ 20 \notin Fitting
    /\ gridLayout.bestCellSize > 3
    /\ gridLayout.sN1 = GridN1

\* C18: when max(n1,n2) exceeds capacity(3), the cell size is 3, the scale
\* is ceil(max(n1,n2)/capacity(3)) > 1, and both scaled counts,
\* ceil(n1/scale) and ceil(n2/scale), are <= capacity(3).
C18_ScaledCountsFit ==
    Drawn /\ GridMax > AreaCapacity(3) =>
        /\ gridLayout.bestCellSize = 3
        /\ IF AreaCapacity(3) = 0
           THEN gridLayout.scale.inf /\ gridLayout.sN1 = 0 /\ gridLayout.sN2 = 0
           ELSE /\ ~gridLayout.scale.inf
                /\ gridLayout.scale.v = CeilDiv(GridMax, AreaCapacity(3))
                /\ gridLayout.scale.v > 1
                /\ gridLayout.sN1 = CeilDiv(GridN1, gridLayout.scale.v)
                /\ gridLayout.sN2 = CeilDiv(GridN2, gridLayout.scale.v)
        /\ gridLayout.sN1 <= AreaCapacity(3)
        /\ gridLayout.sN2 <= AreaCapacity(3)

\* The largest count on an area that holds some dots of size 3
C18_Witness ==
    /\ Drawn /\ GridN1 = MaxDots /\ AreaCapacity(3) > 0
    /\ gridLayout.bestCellSize = 3
    /\ gridLayout.scale.v > 1
    /\ gridLayout.sN1 <= AreaCapacity(3)

\* ------------------------------------------------------------------------
\* Determinism
\* ------------------------------------------------------------------------
\* What the page shows is what a calculation of the parameters of the
\* state shows, whatever was calculated before
ShowsFresh ==
    LET shown == Shown(MODES_calc(currentMode, inputsState))
    IN  /\ nValueDisplay = shown.nValueDisplay
        /\ dynamicParamsDisplay = shown.dynamicParamsDisplay
        /\ interpretationTable = shown.interpretationTable
        /\ currentVisualData = shown.currentVisualData

\* Within a mode a step writes at most one parameter, the one of the
\* listener that ran; a change of mode sets the parameters up.
ParametersKept ==
    IF currentMode' = currentMode /\ inputsState' # DefaultState(currentMode)
    THEN Cardinality({id \in InputIds(currentMode) : inputsState'[id] # inputsState[id]}) <= 1
    ELSE inputsState' = DefaultState(currentMode')

AtLeast(row, other) == NumLe(other[1], row[1]) /\ NumLe(other[3], row[3])

C21_AllDotsDrawn ==
    Drawn =>
        /\ gridLayout.dots1 = gridLayout.sN1
        /\ gridLayout.dots2 = gridLayout.sN2

\* Nine participants on a grid of three by three cells of 20: the third
\* row lies below the cut-off, and six dots are drawn
C21_Witness ==
    /\ Drawn /\ sampleCanvas = [w |-> CanvasSide, h |-> CanvasSide - 60]
    /\ GridN1 = 9 /\ GridN2 <= 9
    /\ gridLayout.bestCellSize = 20 /\ gridLayout.sN1 = 9
    /\ gridLayout.dots1 = 6

\* ------------------------------------------------------------------------
\* Events of the page
\* ------------------------------------------------------------------------
\* C22: after every event of a parameter change (an input, a checkbox, a
\* change of study design) has been handled, the result shown and the
\* visual data stored are those of the calculator of the current mode
\* applied to the current input state; no event leaves a result of older
\* inputs on display.
C22_NoStaleResult ==
    [][LET shown == Shown(calcResults[currentMode'][inputsState'])
       IN  /\ nValueDisplay' = shown.nValueDisplay
           /\ dynamicParamsDisplay' = shown.dynamicParamsDisplay
           /\ interpretationTable' = shown.interpretationTable
           /\ currentVisualData' = shown.currentVisualData]_vars

\* The precision was moved to 4 on a prevalence of 50: 625 is shown
C22_Witness ==
    /\ PrevalenceIs(50, 4) /\ ~inputsState["fpc"] /\ ~inputsState["dropout"]
    /\ ShowsInt(625)

\* C23: after any sequence of inputs and changes of study design the keys
\* of the input state are the input ids of the schema of the current
\* mode, and right after a change every value is the default of that
\* mode: no value entered in another mode carries over, shared ids such
\* as power, confidence, ratio and dropout included.
C23_StateOfCurrentMode ==
    /\ [](DOMAIN inputsState = InputIds(currentMode))
    /\ [][currentMode' # currentMode => inputsState' = DefaultStateOf(currentMode')]_vars

\* The two-means design as it is set up, with the shared ids at their defaults
C23_Witness ==
    /\ currentMode = "two-means"
    /\ inputsState = DefaultStateOf("two-means")
    /\ ~inputsState["dropout"] /\ NumEq(inputsState["ratio"], One)
    /\ "p1" \notin DOMAIN inputsState

\* The calculator has returned an error outcome: an error tag, or the
\* outcome of an odds ratio of 1
ErrorOutcome == ShowsErrorTag \/ (InCaseControl /\ NearOne(inputsState["or"]))

\* C24: whenever a calculator returns an error outcome the result carries
\* no table of methods and no group counts, and the stored visual data is
\* cleared, so that after a change that turns a valid calculation into an
\* error the grid no longer shows the counts of the calculation before.
C24_ErrorClearsVisualData ==
    ErrorOutcome =>
        /\ interpretationTable = Null
        /\ currentVisualData \in {Undefined, Null}
        /\ ~DrawsGrid

\* A cohort whose two proportions were made equal
C24_Witness ==
    /\ currentMode = "cohort"
    /\ NumEq(inputsState["p_exposed"], inputsState["p_unexposed"])
    /\ ShowsErrorTag /\ currentVisualData = Undefined

\* ------------------------------------------------------------------------
\* The corrected size against the population
\* ------------------------------------------------------------------------
\* The correction is enabled on a population that is an integer >= 1
FinitePopulation ==
    /\ InPrevalence /\ inputsState["fpc"]
    /\ IsInt(inputsState["popSize"]) /\ NumLe(One, inputsState["popSize"])

\* The population inflated as dropout inflates a size: ceil(population / 0.9)
InflatedPopulation == NumCeil(NumDiv(inputsState["popSize"], Dec(9, 10)))

\* C25 as stated: for the Prevalence calculator with the correction
\* enabled and an integer population >= 1 the size returned never exceeds
\* the population, for every prevalence, precision and dropout setting.
C25_NeverAbovePopulation ==
    FinitePopulation => ShowsNumber /\ NumLe(ShownNumber, inputsState["popSize"])

\* C25, amended: with the correction enabled and an integer population
\* >= 1 the size returned does not exceed the population when dropout is
\* off, and does not exceed ceil(population / 0.9) when dropout is on.
C25_BoundedByPopulation ==
    FinitePopulation =>
        /\ ShowsNumber
        /\ ~inputsState["dropout"] => NumLe(ShownNumber, inputsState["popSize"])
        /\ inputsState["dropout"] => NumLe(ShownNumber, InflatedPopulation)

\* P = 50, D = 4 on a population of 50 with dropout: 52 of 50
C25_Witness ==
    /\ FinitePopulation /\ PrevalenceIs(50, 4) /\ inputsState["dropout"]
    /\ NumEq(inputsState["popSize"], FromInt(50))
    /\ ShowsInt(52)

\* ------------------------------------------------------------------------
\* The counts of the grid against the number shown
\* ------------------------------------------------------------------------
\* n1 + n2 of the visual data stored for the grid
GridTotal == NumAdd(currentVisualData.n1, currentVisualData.n2)

\* C26: for every comparative design (Case-Control, Cohort, RCT) with a
\* numeric result, the two counts handed to the grid come from the method
\* of the number shown: visualData.n1 + visualData.n2 is the total shown.
C26_GridTotalIsHeadline ==
    HasTable => ShowsNumber /\ NumEq(GridTotal, ShownNumber)

\* The RCT as it is set up: the Kelsey total is shown, the grid has the
\* two Fleiss counts, and the two totals differ
C26_Witness ==
    /\ currentMode = "rct" /\ inputsState = DefaultStateOf("rct")
    /\ HasTable /\ ShowsNumber
    /\ NumEq(ShownNumber, Result.table.kelsey.total)
    /\ NumEq(GridTotal, Result.table.fleiss.total)
    /\ ShowsInt(778) /\ NumEq(GridTotal, FromInt(776))

\* ------------------------------------------------------------------------
\* The Z-scores inside calculateAdvanced
\* ------------------------------------------------------------------------
\* C28: for every integer power in 80..99 and confidence in 90..99 the
\* Z-scores that calculateAdvanced looks up from (1 - beta) * 100 and
\* (1 - alpha) * 100, the callers having made alpha = (100 - conf) / 100
\* and beta = (100 - power) / 100, are getZBeta(power) and
\* getZAlpha(conf), the pair of the direct lookup of the two-means
\* calculator; 0.842 is not the result for a power other than 80.
C28_RoundTripKeepsZ ==
    /\ \A power \in 80..99 :
           Called("zb") /\ ZArgIs(power) =>
               /\ zRet.value = getZBeta(FromInt(power))
               /\ Returns(Z_MAP[power])
               /\ power # 80 => ~Returns(842)
    /\ \A conf \in 90..99 :
           Called("za") /\ ZArgIs(conf) =>
               /\ zRet.value = getZAlpha(FromInt(conf))
               /\ Returns(BandOf(conf))

\* A power of 93 has gone through beta = 0.07: 1.476
C28_Witness == Called("zb") /\ ZArgIs(93) /\ Returns(1476)

\* ------------------------------------------------------------------------
\* The proportion derived from the odds ratio
\* ------------------------------------------------------------------------
\* p1 of the case-control design in the current state
P1OfState == DerivedP1(inputsState["or"], Percent(inputsState["p_controls"]))

\* C29: for Case-Control with p0 in (0,1) a numeric result is produced only
\* if the derived proportion p1 lies strictly between 0 and 1; an odds
\* ratio OR <= 0 never reaches the estimator.
C29_NumericOnlyInsideUnitInterval ==
    InCaseControl /\ HasTable =>
        /\ NumGt(inputsState["or"], Zero)
        /\ NumGt(P1OfState, Zero) /\ NumLt(P1OfState, One)

\* An odds ratio of 0 on 30% exposed controls: p1 = 0 and a table of counts
C29_Witness ==
    /\ InCaseControl /\ NumEq(inputsState["or"], Zero)
    /\ NumEq(inputsState["p_controls"], FromInt(30))
    /\ NumEq(P1OfState, Zero)
    /\ HasTable /\ ShowsNumber /\ PosInt(ShownNumber)

\* ------------------------------------------------------------------------
\* The scale of the grid
\* ------------------------------------------------------------------------
\* C30: for every rendering area and all n1, n2 >= 0 the scale of the grid
\* packer is a finite integer >= 1 and the cell size is one of the
\* presets; when the area is so small that capacity(3) = 0 and
\* max(n1,n2) > 0, no division by zero or infinite scale occurs.
C30_FiniteScale ==
    Drawn =>
        /\ ~gridLayout.scale.inf
        /\ gridLayout.scale.v >= 1
        /\ gridLayout.bestCellSize \in Presets

\* One participant on an area of 2 by 3: capacity(3) is 0, the scale is
\* 1 / 0 and no dot is left
C30_Witness ==
    /\ Drawn /\ sampleCanvas = [w |-> 80 + 4, h |-> 80 + 3]
    /\ AreaCapacity(3) = 0 /\ GridN1 = 1 /\ GridN2 <= 1
    /\ gridLayout.bestCellSize = 3
    /\ gridLayout.scale.inf /\ gridLayout.sN1 = 0

\* ------------------------------------------------------------------------
\* The animation loop
\* ------------------------------------------------------------------------
\* C27: at every moment after init at most one animation loop that
\* requests its own next frame is pending: no sequence of notifications of
\* the ResizeObserver and of resize events of the window raises the number
\* of requestAnimationFrame(loop) chains above one.
C27_OneLoopChain == frameRequests.loop <= 1

\* One notification of the observer has had its frame: two loops request
\* the next frame, and the window was not resized
C27_Witness ==
    /\ frameRequests = [loop |-> 2, resize |-> 0]
    /\ windowSize = [width |-> 1024, height |-> 768]
====
